---- MODULE Spec2Model ----
(***************************************************************************)
(* A model of the caskada orchestration engine (src/python/caskada.py):    *)
(* Memory, BaseNode.run, Node.exec_runner, Flow.run_node / run_tasks and   *)
(* ParallelFlow.run_tasks.                                                  *)
(*                                                                         *)
(* One "frame" is one invocation of BaseNode.run on a node object: the     *)
(* object run by the caller (frame 1) or the clone made by Flow.run_node   *)
(* for one visit.  A frame created by run_node also carries run_node's own *)
(* control state (visit check, dispatch of the triggers, collection of the *)
(* execution record).  The user callbacks prep / exec / post /             *)
(* exec_fallback are inputs: what they do is fixed per node by the graph   *)
(* chosen in Init, in the style of the TestNode helpers of the test suite. *)
(***************************************************************************)
EXTENDS Integers, Sequences, FiniteSets, TLC

VARIABLES
    graph,      \* node_order -> the wired node object (fixed after construction)
    top,        \* node_order of the object the caller invokes run on
    frames,     \* the run / run_node invocations of the current top-level run
    glob,       \* the global store shared by every Memory of the run
    runs,       \* outcomes of the caller's completed run calls, oldest first
    mem,        \* a Memory object the caller operates on directly
    last,       \* the outcome of the latest direct call to trigger or to a Memory operation
    heap        \* the mapping objects a caller of Memory.clone holds, by identity

vars == <<graph, top, frames, glob, runs, mem, last, heap>>

\* ---------------------------------------------------------------- bounds
MaxVisits == 3      \* largest max_visits option tried
MaxRetries == 3     \* largest max_retries tried
MaxRuns == 2        \* run calls the caller makes on the same graph
MaxProbes == 1      \* trigger calls made on one node object from outside its post
MaxBranches == 3    \* largest number of triggers (chunks) fanned out by one post

DEFAULT_ACTION == "default"

\* ------------------------------------------------------------- utilities
Merge(a, b) == [k \in (DOMAIN a) \cup (DOMAIN b) |-> IF k \in DOMAIN b THEN b[k] ELSE a[k]]
Without(a, k) == [j \in (DOMAIN a) \ {k} |-> a[j]]
Empty == <<>>
NoneVal == [kind |-> "None"]
SortedSeq(S) == [k \in 1..Cardinality(S) |-> CHOOSE x \in S : Cardinality({y \in S : y < x}) = k - 1]

\* --------------------------------------------------------------- Memory
\* line 63: the names _set_value refuses
Reserved == {"global", "local", "_global", "_local", "clone", "create"}

\* mutant of MemSet: the write goes to the local store
MemSetLocal(m, key, value) ==
    [global |-> m.global, local |-> Merge(m.local, key :> value)]

\* mutant of MemSet: the local shadow of the key is left in place
MemSetKeepsShadow(m, key, value) ==
    IF key \in Reserved THEN m
    ELSE [global |-> Merge(m.global, key :> value), local |-> m.local]

\* Memory._set_value: the primary write path.  The assertion of line 63 raises
\* before anything is written (MemSetRaises).
MemSet(m, key, value) ==
    IF key \in Reserved THEN m
    ELSE [global |-> Merge(m.global, key :> value),
          local  |-> IF key \in DOMAIN m.local THEN Without(m.local, key) ELSE m.local]

MemSetRaises(key) == key \in Reserved

\* mutant of MemGet: the global store is looked up first
MemGetGlobalFirst(m, key, Error) ==
    IF key \in DOMAIN m.global THEN [ok |-> TRUE, value |-> m.global[key]]
    ELSE IF key \in DOMAIN m.local THEN [ok |-> TRUE, value |-> m.local[key]]
    ELSE [ok |-> FALSE, error |-> Error]

\* _get_from_stores (lines 27-30) as Memory calls it: local first, then
\* global, else the not-found error of the access used
MemGet(m, key, Error) ==
    IF key \in DOMAIN m.local THEN [ok |-> TRUE, value |-> m.local[key]]
    ELSE IF key \in DOMAIN m.global THEN [ok |-> TRUE, value |-> m.global[key]]
    ELSE [ok |-> FALSE, error |-> Error]

\* what Python finds on a Memory object before it ever calls __getattr__: the
\* instance attributes set by __init__, the local property and the methods
\* (the value is named, not modelled)
Attributes ==
    ("_global" :> "dict") @@ ("_local" :> "dict") @@ ("local" :> "LocalProxy")
    @@ ("clone" :> "method") @@ ("_set_value" :> "method")

\* memory.<key>: Memory.__getattr__ (line 60) for a name normal lookup misses
MemGetAttr(m, key) ==
    IF key \in DOMAIN Attributes THEN [ok |-> TRUE, value |-> Attributes[key]]
    ELSE MemGet(m, key, "AttributeError")

\* memory[key]: Memory.__getitem__ (line 61)
MemGetItem(m, key) == MemGet(m, key, "KeyError")

\* Memory.__contains__ (line 71)
MemContains(m, key) == key \in DOMAIN m.local \/ key \in DOMAIN m.global

\* mutant of MemDel: the key is deleted from the first store that holds it only
MemDelFirstOnly(m, key) ==
    IF key \notin DOMAIN m.global /\ key \notin DOMAIN m.local
    THEN [ok |-> FALSE, error |-> "KeyError", mem |-> m]
    ELSE [ok |-> TRUE,
          mem |-> IF key \in DOMAIN m.global
                  THEN [global |-> Without(m.global, key), local |-> m.local]
                  ELSE [global |-> m.global, local |-> Without(m.local, key)]]

\* _delete_from_stores (lines 32-35) as Memory.__delattr__ / __delitem__ call it
MemDel(m, key) ==
    IF key \notin DOMAIN m.global /\ key \notin DOMAIN m.local
    THEN [ok |-> FALSE, error |-> "KeyError", mem |-> m]
    ELSE [ok |-> TRUE,
          mem |-> [global |-> IF key \in DOMAIN m.global THEN Without(m.global, key) ELSE m.global,
                   local  |-> IF key \in DOMAIN m.local THEN Without(m.local, key) ELSE m.local]]

\* LocalProxy.__getitem__ (line 40): _get_from_stores on the local store alone
LocalGet(m, key) ==
    IF key \in DOMAIN m.local THEN [ok |-> TRUE, value |-> m.local[key]]
    ELSE [ok |-> FALSE, error |-> "KeyError"]

\* LocalProxy.__setattr__ / __setitem__ (lines 41-42): self._store[key] = value
LocalSet(m, key, value) ==
    [global |-> m.global, local |-> Merge(m.local, key :> value)]

\* mutant of LocalDel: the accessor deletes as Memory does, from both stores
LocalDelBoth(m, key) == MemDel(m, key)

\* LocalProxy.__delattr__ / __delitem__ (lines 43-44): _delete_from_stores on
\* the local store alone
LocalDel(m, key) ==
    IF key \notin DOMAIN m.local
    THEN [ok |-> FALSE, error |-> "KeyError", mem |-> m]
    ELSE [ok |-> TRUE, mem |-> [global |-> m.global, local |-> Without(m.local, key)]]

\* LocalProxy.__contains__ (line 45)
LocalContains(m, key) == key \in DOMAIN m.local

\* Memory.clone: same global, deep copy of local updated with the forking data
MemCloneLocal(local, forking_data) == Merge(local, forking_data)

RECURSIVE MergeAll(_, _)
MergeAll(triggers, i) ==
    IF i = 0 THEN Empty ELSE Merge(MergeAll(triggers, i - 1), triggers[i].forking_data)

\* mutant of ListTriggers: the pairs share one local store, updated in place
ListTriggersSharedLocal(triggers, local) ==
    IF Len(triggers) = 0
    THEN << [action |-> DEFAULT_ACTION, local |-> local] >>
    ELSE [i \in 1..Len(triggers) |->
            [action |-> triggers[i].action,
             local  |-> Merge(local, MergeAll(triggers, Len(triggers)))]]

\* mutant of ListTriggers: no implicit default pair
ListTriggersNoDefault(triggers, local) ==
    [i \in 1..Len(triggers) |->
        [action |-> triggers[i].action,
         local  |-> MemCloneLocal(local, triggers[i].forking_data)]]

\* BaseNode.list_triggers: one (action, memory clone) pair per trigger, or the
\* implicit default pair
ListTriggers(triggers, local) ==
    IF Len(triggers) = 0
    THEN << [action |-> DEFAULT_ACTION, local |-> MemCloneLocal(local, Empty)] >>
    ELSE [i \in 1..Len(triggers) |->
            [action |-> triggers[i].action,
             local  |-> MemCloneLocal(local, triggers[i].forking_data)]]

\* mutant of GetNextNodes: an action with no successors falls through to the
\* successors of the default action
GetNextNodesFallthrough(node, action) ==
    IF action \in DOMAIN graph[node].successors THEN graph[node].successors[action]
    ELSE IF DEFAULT_ACTION \in DOMAIN graph[node].successors
    THEN graph[node].successors[DEFAULT_ACTION] ELSE <<>>

\* BaseNode.get_next_nodes (the warning is not modelled)
GetNextNodes(node, action) ==
    IF action \in DOMAIN graph[node].successors THEN graph[node].successors[action] ELSE <<>>

\* ------------------------------------------------- the graphs tried (inputs)
\* A wired node object.  kind is its class; successors maps an action to the
\* nodes registered for it, in registration order; the other fields say what
\* the user callbacks of the node do: trig is what post passes to trigger,
\* execFails the number of leading exec attempts that raise, sameError
\* whether exec raises the same exception object on every attempt,
\* fallback what exec_fallback does ("raise": the default, "value": an
\* override returning a value, "error": an override raising an error of its
\* own), prepFails / postFails whether prep / post
\* raise.  start and max_visits are those of a Flow.  role tells the posts of
\* the cookbook's fan-out / fan-in steps from the plain post of the test suite.
Nd(kind, successors, trig) ==
    [kind |-> kind, successors |-> successors, trig |-> trig,
     max_retries |-> 1, execFails |-> 0, sameError |-> FALSE, fallback |-> "raise",
     prepFails |-> FALSE, postFails |-> FALSE, start |-> 0, max_visits |-> 0,
     role |-> "plain"]

DefaultMaxVisits == 15

FlowNd(successors, trig, start, max_visits) ==
    [Nd("Flow", successors, trig) EXCEPT !.start = start, !.max_visits = max_visits]

Trig(action, forking_data) == [action |-> action, forking_data |-> forking_data]

\* a step wired as its own successor on the default action, Flow(max_visits = n)
LoopGraph(n) ==
    [graph |-> <<Nd("Node", [default |-> <<1>>], <<>>),
                 FlowNd(<<>>, <<>>, 1, n)>>,
     top |-> 2]

\* a step that retries once, triggers the default action explicitly and is
\* its own successor on it, Flow(max_visits = 2)
RetryLoopGraph ==
    [graph |-> <<[Nd("Node", [default |-> <<1>>], <<Trig(DEFAULT_ACTION, <<>>)>>) EXCEPT
                    !.max_retries = 2, !.execFails = 1],
                 FlowNd(<<>>, <<>>, 1, 2)>>,
     top |-> 2]

\* a standalone Node (with a successor that a standalone run must not run)
RetryGraph(maxr, k, fb, same) ==
    [graph |-> <<[Nd("Node", [default |-> <<2>>], <<>>) EXCEPT
                    !.max_retries = maxr, !.execFails = k, !.fallback = fb, !.sameError = same],
                 Nd("Node", <<>>, <<>>)>>,
     top |-> 1]

\* a start step with two successors on x, one on y, one on default
BranchTrigs ==
    { <<>>,
      <<Trig("x", [id |-> "b"])>>,
      <<Trig("y", [id |-> "c"])>>,
      <<Trig("x", [id |-> "b"]), Trig("y", [id |-> "c"])>>,
      <<Trig("y", [id |-> "c"]), Trig("x", [id |-> "b"])>>,
      <<Trig("z", <<>>), Trig("y", <<>>)>>,
      <<Trig(DEFAULT_ACTION, <<>>)>>,
      <<Trig("y", [id |-> "b"]), Trig("y", [id |-> "c"])>>,
      \* forking data under a key that is also written to global memory
      <<Trig("x", [prep_1 |-> FALSE]), Trig("y", [id |-> "c"])>> }

BranchGraph(trigs) ==
    [graph |-> <<Nd("Node", ("x" :> <<2, 3>>) @@ ("y" :> <<4>>) @@ ("default" :> <<5>>), trigs),
                 Nd("Node", [default |-> <<5>>], <<>>),
                 Nd("Node", <<>>, <<>>),
                 Nd("Node", <<>>, <<Trig("done", [id |-> "d"])>>),
                 Nd("Node", <<>>, <<>>),
                 FlowNd(<<>>, <<>>, 1, DefaultMaxVisits)>>,
     top |-> 6]

\* the start step triggers x and y, each resolving to one terminal successor
FanGraph ==
    [graph |-> <<Nd("Node", ("x" :> <<2>>) @@ ("y" :> <<3>>),
                    <<Trig("x", [id |-> "b"]), Trig("y", [id |-> "c"])>>),
                 Nd("Node", <<>>, <<>>),
                 Nd("Node", <<>>, <<>>),
                 FlowNd(<<>>, <<>>, 1, DefaultMaxVisits)>>,
     top |-> 4]

\* the start step triggers x and y, each resolving to one successor that ends
\* on an explicit trigger of its own with no successor
TerminalFanGraph ==
    [graph |-> <<Nd("Node", ("x" :> <<2>>) @@ ("y" :> <<3>>),
                    <<Trig("x", [id |-> "b"]), Trig("y", [id |-> "c"])>>),
                 Nd("Node", <<>>, <<Trig("out_b", [k |-> "b"])>>),
                 Nd("Node", <<>>, <<Trig("out_c", <<>>)>>),
                 FlowNd(<<>>, <<>>, 1, DefaultMaxVisits)>>,
     top |-> 4]

\* fan-out then fan-in on a shared successor (test_mixed_parallel_and_sequential_execution2)
DiamondGraph ==
    [graph |-> <<Nd("Node", ("path_b" :> <<2>>) @@ ("path_c" :> <<3>>),
                    <<Trig("path_b", [id |-> "b"]), Trig("path_c", [id |-> "c"])>>),
                 Nd("Node", [default |-> <<4>>], <<>>),
                 Nd("Node", [default |-> <<4>>], <<>>),
                 Nd("Node", <<>>, <<>>),
                 FlowNd(<<>>, <<>>, 1, DefaultMaxVisits)>>,
     top |-> 5]

\* a Flow used as a step of the caller's Flow; its inner step ends on an
\* explicit trigger that has no successor inside it
NestedGraph ==
    [graph |-> <<FlowNd([out |-> <<3>>], <<>>, 2, DefaultMaxVisits),
                 Nd("Node", <<>>, <<Trig("out", [id |-> "n"])>>),
                 Nd("Node", <<>>, <<>>),
                 FlowNd(<<>>, <<>>, 1, DefaultMaxVisits)>>,
     top |-> 4]

\* a Flow of two chained steps used as a step of the caller's Flow, visited
\* once for each of the two triggers of the outer start step
NestedChainGraph ==
    [graph |-> <<Nd("Node", ("x" :> <<2>>) @@ ("y" :> <<2>>),
                    <<Trig("x", [id |-> "b"]), Trig("y", [id |-> "c"])>>),
                 FlowNd([out |-> <<5>>], <<>>, 3, DefaultMaxVisits),
                 Nd("Node", [default |-> <<4>>], <<>>),
                 Nd("Node", <<>>, <<Trig("out", <<>>)>>),
                 Nd("Node", <<>>, <<>>),
                 FlowNd(<<>>, <<>>, 1, DefaultMaxVisits)>>,
     top |-> 6]

\* the cookbook's fan-out / fan-in (python-batch-node: TriggerCSVChunksNode,
\* ProcessOneChunkNode, AggregateStatsNode), for N chunks
FanInGraph(N) ==
    [graph |-> <<[Nd("Node", [process_chunk |-> <<2>>],
                     [i \in 1..N |-> Trig("process_chunk", [index |-> i])])
                    EXCEPT !.role = "fanout"],
                 [Nd("Node", [aggregate_stats |-> <<3>>], <<>>) EXCEPT !.role = "fanin"],
                 Nd("Node", <<>>, <<>>),
                 FlowNd(<<>>, <<>>, 1, DefaultMaxVisits)>>,
     top |-> 4]

\* two steps in a row, Flow(max_visits = n)
ChainGraph(n) ==
    [graph |-> <<Nd("Node", [default |-> <<2>>], <<>>),
                 Nd("Node", <<>>, <<>>),
                 FlowNd(<<>>, <<>>, 1, n)>>,
     top |-> 3]

\* two steps that are each other's successor on the default action,
\* Flow(max_visits = n)
MutualLoopGraph(n) ==
    [graph |-> <<Nd("Node", [default |-> <<2>>], <<>>),
                 Nd("Node", [default |-> <<1>>], <<>>),
                 FlowNd(<<>>, <<>>, 1, n)>>,
     top |-> 3]

\* a start step whose post triggers the same action k times, each trigger
\* with forking data of its own, the action resolving to one terminal
\* successor; Flow(max_visits = n)
ConvergeGraph(k, n) ==
    [graph |-> <<Nd("Node", [go |-> <<2>>], [i \in 1..k |-> Trig("go", [index |-> i])]),
                 Nd("Node", <<>>, <<>>),
                 FlowNd(<<>>, <<>>, 1, n)>>,
     top |-> 3]

\* a Flow(max_visits = 1) of one step, used as a step of the caller's
\* Flow(max_visits = n) and wired as its own successor on the action its
\* step ends on
NestedLoopGraph(n) ==
    [graph |-> <<FlowNd([out |-> <<1>>], <<>>, 2, 1),
                 Nd("Node", <<>>, <<Trig("out", <<>>)>>),
                 FlowNd(<<>>, <<>>, 1, n)>>,
     top |-> 3]

\* the node `n` of g made to raise in `phase` on every call
WithFailure(g, n, phase) ==
    [g EXCEPT !.graph[n] =
        IF phase = "prep" THEN [@ EXCEPT !.prepFails = TRUE]
        ELSE IF phase = "post" THEN [@ EXCEPT !.postFails = TRUE]
        ELSE [@ EXCEPT !.execFails = g.graph[n].max_retries]]

Phases == {"prep", "exec", "post"}

Scenarios ==
    { LoopGraph(n) : n \in 1..MaxVisits }
    \cup { RetryGraph(m, k, fb, same) :
             m \in 1..MaxRetries, k \in 0..MaxRetries, fb \in {"raise", "value"}, same \in BOOLEAN }
    \cup { RetryGraph(m, m, "error", FALSE) : m \in 1..MaxRetries }
    \cup { BranchGraph(t) : t \in BranchTrigs }
    \cup { FanGraph, DiamondGraph, NestedGraph, RetryLoopGraph, NestedChainGraph,
           TerminalFanGraph }
    \cup { WithFailure(g, n, ph) :
             g \in {FanGraph, DiamondGraph, NestedGraph}, n \in 1..3, ph \in Phases }
    \cup { WithFailure(RetryGraph(1, 0, "raise", FALSE), 1, ph) : ph \in {"prep", "post"} }
    \* prep or post raising on a node that retries, or falls back to a value
    \cup { WithFailure(RetryGraph(2, k, "value", FALSE), 1, ph) :
             k \in 1..2, ph \in {"prep", "post"} }

\* ------------------------------------------------------------------ frames
Val(kind, node) == [kind |-> kind, node |-> node]
Err(type, node, retry_count) == [kind |-> "Error", type |-> type, node |-> node, retry_count |-> retry_count]

\* the state of one BaseNode.run invocation (and of the run_node around it)
NewFrame(node, flow, parent, pidx, local, propagate, pc) ==
    [node |-> node,             \* _node_order of the object run
     flow |-> flow,             \* frame of the Flow whose run_node made this visit (0: the caller)
     parent |-> parent,         \* frame awaiting this one (0: the caller)
     pidx |-> pidx,             \* index of the parent's (action, memory) pair this visit is for
     propagate |-> propagate,   \* run's propagate argument
     given |-> "Memory",        \* what run was given as memory: a Memory or a raw mapping
     pc |-> pc,
     local |-> local,           \* the local store of this invocation's Memory
     attempt |-> 0,             \* exec_runner's loop variable
     cur_retry |-> 0,
     nprep |-> 0, nexec |-> 0, nfallback |-> 0, npost |-> 0,
     log |-> <<>>,              \* the callbacks called so far, in order
     prep_res |-> NoneVal, exec_res |-> NoneVal,
     exec_args |-> {},          \* the arguments exec was called with
     post_args |-> <<>>,        \* the (prep_res, exec_res) post was called with
     error |-> NoneVal,         \* the exception exec raised last
     triggers |-> <<>>,         \* _triggers
     locked |-> TRUE,           \* _locked
     visit_counts |-> <<>>,     \* a Flow's visit_counts
     pairs |-> <<>>,            \* run's result under propagate: list_triggers
     work |-> <<>>,             \* run_node's tasks, flattened: (pair index, successor)
     kids |-> <<>>,             \* the frames started for work, in order
     inner |-> 0,               \* a Flow's exec_runner: the frame of run_node(start)
     raised |-> NoneVal,        \* the first exception a child handed to the awaiting run_tasks
     tree |-> NoneVal,          \* run_node's result
     err |-> NoneVal]           \* the exception this invocation ended with

Finished(fr) == fr.pc \in {"done", "failed", "returned", "raised"}
Succeeded(fr) == fr.pc \in {"done", "returned"}
Failed(fr) == fr.pc \in {"failed", "raised"}
FrameIds == 1..Len(frames)

\* mutant of Raise: the exception also cancels the frames still running under
\* the same awaiting frame
RaiseCancelling(fs, f, e) ==
    LET p == fs[f].parent
        g == [h \in 1..Len(fs) |->
                IF h = f THEN [fs[h] EXCEPT !.pc = "failed", !.err = e]
                ELSE IF p # 0 /\ fs[h].parent = p /\ fs[h].pc \notin {"done", "failed"}
                THEN [fs[h] EXCEPT !.pc = "failed", !.err = Err("Cancelled", fs[h].node, 0)]
                ELSE fs[h]]
    IN  IF p # 0 /\ g[p].pc \in {"wait", "inner"} /\ g[p].raised = NoneVal
        THEN [g EXCEPT ![p].raised = e]
        ELSE g

\* mutant of Raise: the exception is lost, the awaiting frame is never told
RaiseUnheard(fs, f, e) == [fs EXCEPT ![f].pc = "failed", ![f].err = e]

\* an exception leaves frame f: the frame ends, and the run_tasks awaiting it (if
\* it is still waiting and has not been handed an exception yet) is handed it
Raise(fs, f, e) ==
    LET p == fs[f].parent
        g == [fs EXCEPT ![f].pc = "failed", ![f].err = e]
    IN  IF p # 0 /\ g[p].pc \in {"wait", "inner"} /\ g[p].raised = NoneVal
        THEN [g EXCEPT ![p].raised = e]
        ELSE g

IsParallel(f) == graph[frames[f].node].kind = "ParallelFlow"
IsFlow(n) == graph[n].kind \in {"Flow", "ParallelFlow"}

PrepKey(n) == "prep_" \o ToString(n)
PostKey(n) == "post_" \o ToString(n)

\* the Memory of frame f
Mem(f) == [global |-> glob, local |-> frames[f].local]

\* the frame that keeps the attributes (_triggers, _locked, visit_counts) of
\* the object invocation f runs on: every run call of the caller is made on
\* the object the caller built, whose attributes are kept in frame 1; a visit
\* made by run_node runs a clone of its own (line 278)
Self(f) == IF frames[f].parent = 0 THEN 1 ELSE f

\* mutant of RunsOnClone: run_node runs the node it was given
RunsOnGiven(f) == FALSE

\* line 278: a visit made by run_node runs a clone made for it; the caller's
\* run call runs the object the caller built
RunsOnClone(f) == frames[f].parent # 0

\* the run-scoped attributes of the wired node object n as they are now: those
\* __init__ gave it (lines 98-99, 214), or those left by the latest run on the
\* object itself
ObjectState(n) ==
    LET on == {f \in FrameIds : frames[f].node = n /\ ~RunsOnClone(f)}
        f == CHOOSE g \in on : \A h \in on : h <= g
    IN  IF on = {}
        THEN [triggers |-> <<>>, locked |-> TRUE, cur_retry |-> 0]
        ELSE [triggers |-> frames[f].triggers, locked |-> frames[f].locked,
              cur_retry |-> frames[f].cur_retry]

\* lines 110-112 and 278-279: the clone run for a visit starts with the
\* attributes the node object has
ClonedFrame(node, flow, parent, pidx, local) ==
    LET o == ObjectState(node)
    IN  [NewFrame(node, flow, parent, pidx, local, TRUE, "enter") EXCEPT
            !.triggers = o.triggers, !.locked = o.locked, !.cur_retry = o.cur_retry]

Init ==
    /\ \E s \in Scenarios, par \in BOOLEAN :
          /\ graph = [s.graph EXCEPT ![s.top].kind =
                         IF @ = "Flow" /\ par THEN "ParallelFlow" ELSE @]
          /\ top = s.top
    /\ frames = <<>>
    /\ glob = Empty
    /\ runs = <<>>
    /\ mem = NoneVal
    /\ last = NoneVal
    /\ heap = <<>>

\* the local store run starts with (lines 185-186): that of the Memory the
\* caller built, or the empty one of the Memory run wraps a raw mapping in
CallerLocal(given) == IF given = "Memory" THEN [ctx |-> "m"] ELSE Empty

\* the caller: await top.run(memory) or await top.run(memory, True), memory
\* being Memory({}, {"ctx": "m"}) or the raw mapping {}
\* (BaseNode.run, lines 185-188)
Run ==
    /\ frames = <<>>
    /\ Len(runs) < MaxRuns
    \* a caller comparing two runs makes them the same way
    /\ \E propagate \in (IF runs = <<>> THEN BOOLEAN ELSE {runs[Len(runs)].propagate}),
          given \in (IF runs = <<>> THEN {"Memory", "dict"} ELSE {runs[Len(runs)].given}) :
          frames' = << [NewFrame(top, 0, 0, 0, CallerLocal(given), propagate, "prep")
                           EXCEPT !.given = given] >>
    /\ UNCHANGED <<graph, top, glob, runs, mem, last, heap>>

\* mutant of EnterFrame: the visit check off by one (< instead of <=)
EnterFrameOffByOne(fs, f) ==
    LET F == fs[f].flow
        n == fs[f].node
        vc == fs[F].visit_counts
        current_visit_count == (IF n \in DOMAIN vc THEN vc[n] ELSE 0) + 1
    IN  IF current_visit_count < graph[fs[F].node].max_visits
        THEN [fs EXCEPT ![F].visit_counts = Merge(@, n :> current_visit_count),
                        ![f].pc = "prep", ![f].triggers = <<>>]
        ELSE Raise(fs, f, Err("CycleLimit", n, 0))

\* mutant of EnterFrame: visits are counted per path, under a key made of the
\* step and of the visit it was reached from
EnterFramePerPath(fs, f) ==
    LET F == fs[f].flow
        n == fs[f].node
        key == n + 100 * fs[f].parent
        vc == fs[F].visit_counts
        current_visit_count == (IF key \in DOMAIN vc THEN vc[key] ELSE 0) + 1
    IN  IF current_visit_count <= graph[fs[F].node].max_visits
        THEN [fs EXCEPT ![F].visit_counts = Merge(@, key :> current_visit_count),
                        ![f].pc = "prep", ![f].triggers = <<>>]
        ELSE Raise(fs, f, Err("CycleLimit", n, 0))

\* mutant of EnterFrame: the visit is checked but not recorded
EnterFrameUncounted(fs, f) ==
    LET F == fs[f].flow
        n == fs[f].node
        vc == fs[F].visit_counts
        current_visit_count == (IF n \in DOMAIN vc THEN vc[n] ELSE 0) + 1
    IN  IF current_visit_count <= graph[fs[F].node].max_visits
        THEN [fs EXCEPT ![f].pc = "prep", ![f].triggers = <<>>]
        ELSE Raise(fs, f, Err("CycleLimit", n, 0))

\* Flow.run_node, lines 273-279: the visit check, the clone, and run's reset of
\* the clone's trigger list
EnterFrame(fs, f) ==
    LET F == fs[f].flow
        n == fs[f].node
        vc == fs[F].visit_counts
        current_visit_count == (IF n \in DOMAIN vc THEN vc[n] ELSE 0) + 1
    IN  IF current_visit_count <= graph[fs[F].node].max_visits
        THEN [fs EXCEPT ![F].visit_counts = Merge(@, n :> current_visit_count),
                        ![f].pc = "prep", ![f].triggers = <<>>]
        ELSE Raise(fs, f, Err("CycleLimit", n, 0))

Enter(f) ==
    /\ frames[f].pc = "enter"
    /\ frames' = EnterFrame(frames, f)
    /\ UNCHANGED <<graph, top, glob, runs, mem, last, heap>>

\* mutant of Prep: an error of prep is swallowed and exec is called
PrepSwallowed(f) ==
    /\ frames[f].pc = "prep"
    /\ frames' = [frames EXCEPT ![f].nprep = @ + 1, ![f].log = Append(@, "prep"),
                                 ![f].pc = "exec"]
    /\ UNCHANGED <<graph, top, glob, runs, mem, last, heap>>

\* BaseNode.run line 189 with the prep of the test suite's TestNode: it marks
\* memory and returns a result (or raises)
Prep(f) ==
    LET n == frames[f].node
        m == MemSet(Mem(f), PrepKey(n), TRUE)
    IN  /\ frames[f].pc = "prep"
        /\ IF graph[n].prepFails
           THEN /\ frames' = Raise([frames EXCEPT ![f].nprep = @ + 1, ![f].log = Append(@, "prep")],
                                   f, Err("PrepError", n, 0))
                /\ glob' = glob
           ELSE /\ frames' = [frames EXCEPT ![f].nprep = @ + 1,
                                            ![f].log = Append(@, "prep"),
                                            ![f].prep_res = Val("prep", n),
                                            ![f].local = m.local,
                                            ![f].pc = "exec"]
                /\ glob' = m.global
        /\ UNCHANGED <<graph, top, runs, mem, last, heap>>

\* mutant of ExecStep: the last retry is given up (max_retries - 2 instead of - 1)
ExecStepShortRetry(fr, n) ==
    LET attempt == fr.attempt
        max_retries == graph[n].max_retries
        called == [fr EXCEPT !.cur_retry = attempt, !.nexec = @ + 1,
                             !.log = Append(@, "exec"),
                             !.exec_args = @ \cup {fr.prep_res}]
        error == Err("ExecError", n, attempt + 1)
    IN  IF attempt >= max_retries
        THEN [fr EXCEPT !.pc = "unreachable"]
        ELSE IF attempt >= graph[n].execFails
        THEN [called EXCEPT !.exec_res = Val("exec", n), !.pc = "post"]
        ELSE IF attempt < max_retries - 2
        THEN [called EXCEPT !.error = error, !.attempt = attempt + 1]
        ELSE [called EXCEPT !.error = error, !.pc = "fallback"]

\* mutant of ExecStep: exec is called once before max_retries is looked at
ExecStepAtLeastOnce(fr, n) ==
    LET attempt == fr.attempt
        max_retries == graph[n].max_retries
        called == [fr EXCEPT !.cur_retry = attempt, !.nexec = @ + 1,
                             !.log = Append(@, "exec"),
                             !.exec_args = @ \cup {fr.prep_res}]
        error == IF graph[n].sameError /\ fr.error # NoneVal
                 THEN fr.error
                 ELSE Err("ExecError", n, attempt + 1)
    IN  IF attempt >= max_retries /\ attempt > 0
        THEN [fr EXCEPT !.pc = "unreachable"]
        ELSE IF attempt >= graph[n].execFails
        THEN [called EXCEPT !.exec_res = Val("exec", n), !.pc = "post"]
        ELSE IF attempt < max_retries - 1
        THEN [called EXCEPT !.error = error, !.attempt = attempt + 1]
        ELSE [called EXCEPT !.error = error, !.pc = "fallback"]

\* Node.exec_runner, lines 222-231: one pass through the retry loop.  The exec
\* of the test suite's ErrorNode raises on its first execFails calls.
ExecStep(fr, n) ==
    LET attempt == fr.attempt
        max_retries == graph[n].max_retries
        called == [fr EXCEPT !.cur_retry = attempt, !.nexec = @ + 1,
                             !.log = Append(@, "exec"),
                             !.exec_args = @ \cup {fr.prep_res}]
        \* line 226: retry_count is set only on an exception that has none yet
        error == IF graph[n].sameError /\ fr.error # NoneVal
                 THEN fr.error
                 ELSE Err("ExecError", n, attempt + 1)
    IN  IF attempt >= max_retries
        THEN [fr EXCEPT !.pc = "unreachable"]
        ELSE IF attempt >= graph[n].execFails
        THEN [called EXCEPT !.exec_res = Val("exec", n), !.pc = "post"]
        ELSE IF attempt < max_retries - 1
        THEN [called EXCEPT !.error = error, !.attempt = attempt + 1]
        ELSE [called EXCEPT !.error = error, !.pc = "fallback"]

Exec(f) ==
    LET n == frames[f].node
        fr == ExecStep(frames[f], n)
    IN  /\ frames[f].pc = "exec"
        /\ ~IsFlow(n)
        /\ frames' = IF fr.pc = "unreachable"
                     THEN Raise(frames, f, Err("RuntimeError", n, 0))
                     ELSE [frames EXCEPT ![f] = fr]
        /\ UNCHANGED <<graph, top, glob, runs, mem, last, heap>>

\* mutant of FallbackStep: the fallback's value is dropped (no return)
FallbackStepNoReturn(fs, f) ==
    LET n == fs[f].node
        g == [fs EXCEPT ![f].nfallback = @ + 1, ![f].log = Append(@, "exec_fallback")]
    IN  IF graph[n].fallback = "raise"
        THEN Raise(g, f, fs[f].error)
        ELSE IF graph[n].fallback = "error"
        THEN Raise(g, f, Err("FallbackError", n, 0))
        ELSE [g EXCEPT ![f].pc = "post"]

\* mutant of FallbackStep: the default fallback swallows the error
FallbackStepSwallow(fs, f) ==
    LET n == fs[f].node
        g == [fs EXCEPT ![f].nfallback = @ + 1, ![f].log = Append(@, "exec_fallback")]
    IN  IF graph[n].fallback = "error"
        THEN Raise(g, f, Err("FallbackError", n, 0))
        ELSE [g EXCEPT ![f].exec_res = IF graph[n].fallback = "raise" THEN NoneVal
                                       ELSE Val("fallback", n),
                       ![f].pc = "post"]

\* Node.exec_fallback (line 218), or an override that returns a value or
\* raises (test_propagate_exec_fallback_error)
FallbackStep(fs, f) ==
    LET n == fs[f].node
        g == [fs EXCEPT ![f].nfallback = @ + 1, ![f].log = Append(@, "exec_fallback")]
    IN  IF graph[n].fallback = "raise"
        THEN Raise(g, f, fs[f].error)
        ELSE IF graph[n].fallback = "error"
        THEN Raise(g, f, Err("FallbackError", n, 0))
        ELSE [g EXCEPT ![f].exec_res = Val("fallback", n), ![f].pc = "post"]

ExecFallback(f) ==
    /\ frames[f].pc = "fallback"
    /\ frames' = FallbackStep(frames, f)
    /\ UNCHANGED <<graph, top, glob, runs, mem, last, heap>>

\* Flow.exec_runner, lines 254-255: reset the visit counts and run the start
\* node; the frame then awaits that run_node
ExecFlow(f) ==
    LET n == frames[f].node
    IN  /\ frames[f].pc = "exec"
        /\ IsFlow(n)
        /\ frames' = Append([frames EXCEPT ![Self(f)].visit_counts = <<>>,
                                           ![f].pc = "inner",
                                           ![f].inner = Len(frames) + 1],
                            ClonedFrame(graph[n].start, Self(f), f, 0, frames[f].local))
        /\ UNCHANGED <<graph, top, glob, runs, mem, last, heap>>

\* mutant of InnerDone: exec_runner returns without awaiting run_node(start)
InnerDoneEarly(f) ==
    /\ frames[f].pc = "inner"
    /\ frames' = [frames EXCEPT ![f].exec_res = frames[frames[f].inner].tree,
                                ![f].pc = "post"]
    /\ UNCHANGED <<graph, top, glob, runs, mem, last, heap>>

\* Flow.exec_runner's run_node returned: its record is the Flow's exec result
InnerDone(f) ==
    /\ frames[f].pc = "inner"
    /\ frames[frames[f].inner].pc = "done"
    /\ frames' = [frames EXCEPT ![f].exec_res = frames[frames[f].inner].tree,
                                ![f].pc = "post"]
    /\ UNCHANGED <<graph, top, glob, runs, mem, last, heap>>

\* BaseNode.trigger, lines 164-165
TriggerAll(triggers, trig) == triggers \o trig

\* mutant of FanIn: the decremented counter is written to the local store
FanInLocal(m) ==
    LET stored == MemSet(m, "result_" \o ToString(MemGetItem(m, "index").value), TRUE)
    IN  MemSetLocal(stored, "remaining", MemGetItem(stored, "remaining").value - 1)

\* ProcessOneChunkNode.post, the memory part: memory.chunk_statistics[index] =
\* chunk_stats; memory.remaining_chunks -= 1
FanIn(m) ==
    LET stored == MemSet(m, "result_" \o ToString(MemGetItem(m, "index").value), TRUE)
    IN  MemSet(stored, "remaining", MemGetItem(stored, "remaining").value - 1)

\* the Memory as the body of post leaves it.  The posts modelled contain no
\* await, so nothing else runs between their reads and writes.
PostMemory(f) ==
    LET n == frames[f].node
        marked == MemSet(Mem(f), PostKey(n), TRUE)
    IN  IF graph[n].role = "fanout"
        \* TriggerCSVChunksNode.post: memory.remaining_chunks = chunk_count
        THEN MemSet(marked, "remaining", Len(graph[n].trig))
        ELSE IF graph[n].role = "fanin" THEN FanIn(marked)
        ELSE marked

\* what post passes to trigger, m being the Memory as post left it
PostTriggers(n, m) ==
    IF graph[n].role = "fanin"
    \* ProcessOneChunkNode.post: if memory.remaining_chunks == 0: ... else: ...
    THEN IF MemGetItem(m, "remaining").value = 0
         THEN << Trig("aggregate_stats", <<>>) >>
         ELSE << Trig(DEFAULT_ACTION, <<>>) >>
    ELSE graph[n].trig

\* mutant of PostStep: post is handed its two results in the wrong order
PostStepSwapped(fr, n, m) ==
    LET posted == [fr EXCEPT !.npost = @ + 1,
                             !.log = Append(@, "post"),
                             !.post_args = <<fr.exec_res, fr.prep_res>>,
                             !.local = m.local,
                             !.triggers = TriggerAll(@, PostTriggers(n, m)),
                             !.locked = TRUE]
    IN  IF fr.propagate
        THEN [posted EXCEPT !.pairs = ListTriggers(posted.triggers, posted.local),
                            \* run returns the pairs: to run_node, or to the caller
                            !.pc = IF fr.parent # 0 THEN "dispatch" ELSE "done"]
        ELSE [posted EXCEPT !.pc = "done"]

\* BaseNode.run, lines 193-198, with the post of the test suite's nodes: it
\* marks memory, then calls trigger for each entry of trig (or raises); the lock
\* is set again once post has returned
PostStep(fr, n, m) ==
    LET posted == [fr EXCEPT !.npost = @ + 1,
                             !.log = Append(@, "post"),
                             !.post_args = <<fr.prep_res, fr.exec_res>>,
                             !.local = m.local,
                             !.triggers = TriggerAll(@, PostTriggers(n, m)),
                             !.locked = TRUE]
    IN  IF fr.propagate
        THEN [posted EXCEPT !.pairs = ListTriggers(posted.triggers, posted.local),
                            \* run returns the pairs: to run_node, or to the caller
                            !.pc = IF fr.parent # 0 THEN "dispatch" ELSE "done"]
        ELSE [posted EXCEPT !.pc = "done"]

\* BaseNode.run, lines 192-193: the lock is released and post is called
Unlock(f) ==
    /\ frames[f].pc = "post"
    /\ frames' = [frames EXCEPT ![Self(f)].locked = FALSE, ![f].pc = "posting"]
    /\ UNCHANGED <<graph, top, glob, runs, mem, last, heap>>

Post(f) ==
    LET n == frames[f].node
        m == PostMemory(f)
    IN  /\ frames[f].pc = "posting"
        /\ IF graph[n].postFails
           THEN /\ frames' = Raise([frames EXCEPT ![f].npost = @ + 1,
                                                  ![f].log = Append(@, "post"),
                                                  ![f].post_args = <<frames[f].prep_res, frames[f].exec_res>>,
                                                  ![Self(f)].locked = FALSE],
                                   f, Err("PostError", n, 0))
                /\ glob' = glob
           ELSE \* post and list_triggers work on the object's trigger list
                /\ LET posted == PostStep([frames[f] EXCEPT !.triggers = frames[Self(f)].triggers],
                                          n, m)
                   IN  frames' = [frames EXCEPT ![f] = posted,
                                                ![Self(f)].triggers = posted.triggers,
                                                ![Self(f)].locked = posted.locked]
                /\ glob' = m.global
        /\ UNCHANGED <<graph, top, runs, mem, last, heap>>

\* ------------------------------------------------------- Flow.run_node, cont.
\* mutant of TerminalTriggers: the implicit default of a step is propagated too
TerminalTriggersAlways(n, pairs, explicit, i) ==
    LET NoNext(p) == Len(GetNextNodes(n, p.action)) = 0
        sel == SelectSeq(SubSeq(pairs, i, Len(pairs)), NoNext)
    IN  [k \in 1..Len(sel) |-> Trig(sel[k].action, sel[k].local)]

RECURSIVE TerminalTriggers(_, _, _, _)
\* lines 283-291: the pairs from index i on whose action has no successor, when
\* the step emitted an explicit trigger, as triggers of the Flow itself
TerminalTriggers(n, pairs, explicit, i) ==
    IF i > Len(pairs) THEN <<>>
    ELSE (IF Len(GetNextNodes(n, pairs[i].action)) = 0 /\ explicit
          THEN << Trig(pairs[i].action, pairs[i].local) >>
          ELSE <<>>)
         \o TerminalTriggers(n, pairs, explicit, i + 1)

RECURSIVE Tasks(_, _, _)
\* lines 283-287 and run_nodes: one _process_trigger task per pair whose action
\* has successors, each running those successors; flattened, in order
Tasks(n, pairs, i) ==
    IF i > Len(pairs) THEN <<>>
    ELSE LET next_nodes == GetNextNodes(n, pairs[i].action)
         IN  [k \in 1..Len(next_nodes) |-> [pidx |-> i, node |-> next_nodes[k]]]
             \o Tasks(n, pairs, i + 1)

\* the frame run_node(work[k].node, node_memory) of a task starts in
ChildFrame(fr, f, w) ==
    ClonedFrame(w.node, fr.flow, f, w.pidx, fr.pairs[w.pidx].local)

\* mutant of StartedAtOnce: ParallelFlow.run_tasks starts nothing by itself
StartedNone(fr, f, work, base) == <<>>

\* ParallelFlow.run_tasks (line 306): every task is started at once.
\* Flow.run_tasks (lines 259-262): tasks are started one by one, see RunTask.
StartedAtOnce(fr, f, work, base) ==
    IF IsParallel(fr.flow)
    THEN [k \in 1..Len(work) |-> ChildFrame(fr, f, work[k])]
    ELSE <<>>

\* mutant of Dispatch: the terminal triggers of a step replace the pending
\* triggers of the Flow
DispatchOverwriting(f) ==
    LET fr == frames[f]
        F == fr.flow
        work == Tasks(fr.node, fr.pairs, 1)
        terminal == TerminalTriggers(fr.node, fr.pairs, Len(fr.triggers) > 0, 1)
        started == StartedAtOnce(fr, f, work, Len(frames))
    IN  /\ fr.pc = "dispatch"
        /\ frames' = [frames EXCEPT ![F].triggers = IF terminal = <<>> THEN @ ELSE terminal,
                                    ![f].work = work,
                                    ![f].kids = [k \in 1..Len(started) |-> Len(frames) + k],
                                    ![f].pc = "wait"]
                     \o started
        /\ UNCHANGED <<graph, top, glob, runs, mem, last, heap>>

\* lines 283-293: the tasks and the terminal triggers of the visit; the tasks
\* are handed to run_tasks
Dispatch(f) ==
    LET fr == frames[f]
        F == fr.flow
        work == Tasks(fr.node, fr.pairs, 1)
        terminal == TerminalTriggers(fr.node, fr.pairs, Len(fr.triggers) > 0, 1)
        started == StartedAtOnce(fr, f, work, Len(frames))
    IN  /\ fr.pc = "dispatch"
        /\ frames' = [frames EXCEPT ![F].triggers = @ \o terminal,
                                    ![f].work = work,
                                    ![f].kids = [k \in 1..Len(started) |-> Len(frames) + k],
                                    ![f].pc = "wait"]
                     \o started
        /\ UNCHANGED <<graph, top, glob, runs, mem, last, heap>>

AllDone(fr) == \A k \in 1..Len(fr.kids) : frames[fr.kids[k]].pc = "done"

\* mutant of RunTask: the next task starts without awaiting the previous one
RunTaskEager(f) ==
    LET fr == frames[f]
    IN  /\ fr.pc = "wait"
        /\ ~IsParallel(fr.flow)
        /\ Len(fr.kids) < Len(fr.work)
        /\ frames' = Append([frames EXCEPT ![f].kids = Append(@, Len(frames) + 1)],
                            ChildFrame(fr, f, fr.work[Len(fr.kids) + 1]))
        /\ UNCHANGED <<graph, top, glob, runs, mem, last, heap>>

\* Flow.run_tasks, lines 260-261: the next task starts once the previous one
\* has returned
RunTask(f) ==
    LET fr == frames[f]
    IN  /\ fr.pc = "wait"
        /\ ~IsParallel(fr.flow)
        /\ Len(fr.kids) < Len(fr.work)
        /\ AllDone(fr)
        /\ frames' = Append([frames EXCEPT ![f].kids = Append(@, Len(frames) + 1)],
                            ChildFrame(fr, f, fr.work[Len(fr.kids) + 1]))
        /\ UNCHANGED <<graph, top, glob, runs, mem, last, heap>>

\* the records of the frames run for pair i, in order
KidTrees(fr, i) ==
    LET idx == {k \in 1..Len(fr.work) : fr.work[k].pidx = i}
        first == CHOOSE k \in idx : \A j \in idx : k <= j
    IN  [k \in 1..Cardinality(idx) |-> frames[fr.kids[first + k - 1]].tree]

\* mutant of Triggered: the implicit default of a step without successors is
\* logged with an empty list
TriggeredWithImplicit(fr) ==
    LET n == fr.node
        HasNext(i) == Len(GetNextNodes(n, fr.pairs[i].action)) > 0
        logged == 1..Len(fr.pairs)
        Last(a) == CHOOSE i \in logged : /\ fr.pairs[i].action = a
                                         /\ \A j \in logged : fr.pairs[j].action = a => j <= i
    IN  [a \in {fr.pairs[i].action : i \in logged} |->
            IF HasNext(Last(a)) THEN KidTrees(fr, Last(a)) ELSE <<>>]

\* mutant of Triggered: the records of the first trigger of an action are kept
TriggeredFirst(fr) ==
    LET n == fr.node
        HasNext(i) == Len(GetNextNodes(n, fr.pairs[i].action)) > 0
        logged == {i \in 1..Len(fr.pairs) : HasNext(i) \/ Len(fr.triggers) > 0}
        First(a) == CHOOSE i \in logged : /\ fr.pairs[i].action = a
                                          /\ \A j \in logged : fr.pairs[j].action = a => i <= j
    IN  [a \in {fr.pairs[i].action : i \in logged} |->
            IF HasNext(First(a)) THEN KidTrees(fr, First(a)) ELSE <<>>]

\* lines 280-297: the triggered mapping (an assignment to a key that is already
\* there replaces its value) and the execution record
Triggered(fr) ==
    LET n == fr.node
        HasNext(i) == Len(GetNextNodes(n, fr.pairs[i].action)) > 0
        logged == {i \in 1..Len(fr.pairs) : HasNext(i) \/ Len(fr.triggers) > 0}
        Last(a) == CHOOSE i \in logged : /\ fr.pairs[i].action = a
                                         /\ \A j \in logged : fr.pairs[j].action = a => j <= i
    IN  [a \in {fr.pairs[i].action : i \in logged} |->
            IF HasNext(Last(a)) THEN KidTrees(fr, Last(a)) ELSE <<>>]

\* mutant of ExecutionTree: an empty triggered mapping is returned as it is
ExecutionTreeNoNone(fr) ==
    [order |-> fr.node, type |-> graph[fr.node].kind, triggered |-> Triggered(fr)]

ExecutionTree(fr) ==
    LET triggered == Triggered(fr)
    IN  [order |-> fr.node, type |-> graph[fr.node].kind,
         triggered |-> IF DOMAIN triggered = {} THEN NoneVal ELSE triggered]

\* mutant of Gathered: the await ends with the first task that returns
GatheredFirstCompleted(fr) ==
    /\ Len(fr.kids) = Len(fr.work)
    /\ \/ Len(fr.work) = 0
       \/ \E k \in 1..Len(fr.kids) : frames[fr.kids[k]].pc = "done"

\* line 293: await self.run_tasks(tasks) has returned every task's result
Gathered(fr) == Len(fr.kids) = Len(fr.work) /\ AllDone(fr)

\* lines 293-297: every task has returned; run_node returns the record
Collect(f) ==
    LET fr == frames[f]
    IN  /\ fr.pc = "wait"
        /\ Gathered(fr)
        /\ fr.raised = NoneVal
        /\ frames' = [frames EXCEPT ![f].tree = ExecutionTree(fr), ![f].pc = "done"]
        /\ UNCHANGED <<graph, top, glob, runs, mem, last, heap>>

\* mutant of Propagate: the Flow wraps the exception of a step in its own
PropagateWrapped(f) ==
    /\ frames[f].pc \in {"wait", "inner"}
    /\ frames[f].raised # NoneVal
    /\ frames' = Raise(frames, f, Err("FlowError", frames[f].node, 0))
    /\ UNCHANGED <<graph, top, glob, runs, mem, last, heap>>

\* an exception raised by an awaited run_node leaves the awaiting frame too:
\* neither run_node, run_tasks nor BaseNode.run catches anything
Propagate(f) ==
    /\ frames[f].pc \in {"wait", "inner"}
    /\ frames[f].raised # NoneVal
    /\ frames' = Raise(frames, f, frames[f].raised)
    /\ UNCHANGED <<graph, top, glob, runs, mem, last, heap>>

\* the caller's await ends: run returned its result (line 198) or raised
Outcome(fr) ==
    [kind |-> graph[top].kind, ok |-> fr.pc = "done",
     propagate |-> fr.propagate, given |-> fr.given,
     \* the caller's mapping (the Memory keeps it by reference) and, when the
     \* caller gave a Memory, its local store
     global |-> glob, local |-> fr.local,
     result |-> IF fr.pc # "done" THEN fr.err
                ELSE IF fr.propagate THEN fr.pairs ELSE fr.exec_res,
     \* what was still running when the caller's await ended, and where it was
     inflight |-> [f \in {g \in FrameIds : ~Finished(frames[g])} |-> frames[f].pc]]

RunReturns ==
    /\ frames # <<>>
    /\ frames[1].pc \in {"done", "failed"}
    /\ runs' = Append(runs, Outcome(frames[1]))
    /\ frames' = [frames EXCEPT ![1].pc = IF @ = "done" THEN "returned" ELSE "raised"]
    /\ UNCHANGED <<graph, top, glob, mem, last, heap>>

\* the caller, once nothing of the last run is left running, builds the other
\* kind of Flow over the same start node, to run it with a fresh Memory
\* (test_flow_vs_parallel_flow_timing)
Rebuild ==
    /\ frames # <<>>
    /\ \A f \in FrameIds : Finished(frames[f])
    /\ frames[1].pc \in {"returned", "raised"}
    /\ Len(runs) < MaxRuns
    /\ IsFlow(top)
    /\ graph' = [graph EXCEPT ![top].kind = IF @ = "Flow" THEN "ParallelFlow" ELSE "Flow"]
    /\ frames' = <<>>
    /\ glob' = Empty
    /\ UNCHANGED <<top, runs, mem, last, heap>>

\* one run call of the caller and everything it sets going
NextOfRun ==
    \/ Run
    \/ RunReturns
    \/ \E f \in FrameIds : Enter(f)
    \/ \E f \in FrameIds : Prep(f)
    \/ \E f \in FrameIds : Exec(f)
    \/ \E f \in FrameIds : ExecFallback(f)
    \/ \E f \in FrameIds : ExecFlow(f)
    \/ \E f \in FrameIds : InnerDone(f)
    \/ \E f \in FrameIds : Unlock(f)
    \/ \E f \in FrameIds : Post(f)
    \/ \E f \in FrameIds : Dispatch(f)
    \/ \E f \in FrameIds : RunTask(f)
    \/ \E f \in FrameIds : Collect(f)
    \/ \E f \in FrameIds : Propagate(f)

Next ==
    \/ NextOfRun
    \/ Rebuild

Spec == Init /\ [][Next]_vars

\* the event loop keeps running whatever is ready to run
Fairness == WF_vars(NextOfRun)
FairSpec == Init /\ [][NextOfRun]_vars /\ Fairness

\* ------------------------------------- the same Flow instance run again
\* the Flows run again: loops, fan-outs and a nested Flow, with and without a
\* failing step
RerunScenarios ==
    { LoopGraph(n) : n \in 1..MaxVisits }
    \cup { FanGraph, DiamondGraph, NestedGraph }
    \cup { WithFailure(FanGraph, n, ph) : n \in 2..3, ph \in {"exec", "post"} }

RerunInit ==
    /\ \E s \in RerunScenarios, par \in BOOLEAN :
          /\ graph = [s.graph EXCEPT ![s.top].kind =
                         IF @ = "Flow" /\ par THEN "ParallelFlow" ELSE @]
          /\ top = s.top
    /\ frames = <<>>
    /\ glob = Empty
    /\ runs = <<>>
    /\ mem = NoneVal
    /\ last = NoneVal
    /\ heap = <<>>

\* the caller, whose await on run has ended, calls run again on the same object
\* with the same memory.  The invocation is new (BaseNode.run, lines 185-188:
\* _triggers is reset); the attributes of the object stay what they are until
\* the run changes them, and whatever the earlier run left running goes on
\* running, holding the same Flow object.
RunAgain ==
    /\ frames # <<>>
    /\ frames[1].pc \in {"returned", "raised"}
    /\ Len(runs) < MaxRuns
    /\ frames' = [frames EXCEPT ![1] =
                     [NewFrame(top, 0, 0, 0,
                               IF @.given = "Memory" THEN @.local ELSE Empty,
                               @.propagate, "prep")
                        EXCEPT !.given = frames[1].given,
                               !.triggers = <<>>,
                               !.locked = frames[1].locked,
                               !.cur_retry = frames[1].cur_retry,
                               !.visit_counts = frames[1].visit_counts]]
    /\ UNCHANGED <<graph, top, glob, runs, mem, last, heap>>

RerunNext ==
    \/ NextOfRun
    \/ RunAgain

RerunSpec == RerunInit /\ [][RerunNext]_vars

\* ------------------------------ run calls on the same Flow that overlap
\* the Flows run twice at once: a loop, two steps in a row with a max_visits
\* that allows one visit of each, and the same with a failing step
OverlapScenarios ==
    { LoopGraph(1), ChainGraph(1), WithFailure(ChainGraph(1), 2, "exec") }

OverlapInit ==
    /\ \E s \in OverlapScenarios, par \in BOOLEAN :
          /\ graph = [s.graph EXCEPT ![s.top].kind = IF par THEN "ParallelFlow" ELSE "Flow"]
          /\ top = s.top
    /\ frames = <<>>
    /\ glob = Empty
    /\ runs = <<>>
    /\ mem = NoneVal
    /\ last = NoneVal
    /\ heap = <<>>

\* the run calls the caller has made
Calls == {f \in FrameIds : frames[f].parent = 0}

\* the caller calls run on the same Flow object again while an earlier call is
\* in progress (asyncio.gather(flow.run(memory), flow.run(memory))), with a
\* Memory over the same global mapping.  BaseNode.run, lines 185-188: the
\* object's trigger list is reset.
RunOverlapping ==
    /\ frames # <<>>
    /\ ~Finished(frames[1])
    /\ Cardinality(Calls) < MaxRuns
    /\ frames' = Append([frames EXCEPT ![1].triggers = <<>>],
                        [NewFrame(top, 0, 0, 0, CallerLocal(frames[1].given),
                                  frames[1].propagate, "prep")
                           EXCEPT !.given = frames[1].given])
    /\ UNCHANGED <<graph, top, glob, runs, mem, last, heap>>

\* the await of a later call ends: run returned or raised
OverlapReturns(f) ==
    /\ f # 1 /\ frames[f].parent = 0
    /\ frames[f].pc \in {"done", "failed"}
    /\ runs' = Append(runs, Outcome(frames[f]))
    /\ frames' = [frames EXCEPT ![f].pc = IF @ = "done" THEN "returned" ELSE "raised"]
    /\ UNCHANGED <<graph, top, glob, mem, last, heap>>

OverlapNext ==
    \/ NextOfRun
    \/ RunOverlapping
    \/ \E f \in FrameIds : OverlapReturns(f)

OverlapSpec == OverlapInit /\ [][OverlapNext]_vars

\* ------------------------------------- Nodes built with max_retries <= 1
\* a Node with max_retries -1, 0 or 1, run by itself or as the second step of
\* a Flow; its exec (were it called) succeeds or raises, its exec_fallback
\* (were it called) raises or returns a value
NoRetryScenarios ==
    { RetryGraph(m, k, fb, FALSE) : m \in (0 - 1)..1, k \in 0..1, fb \in {"raise", "value"} }
    \cup { [ChainGraph(1) EXCEPT !.graph[2].max_retries = m, !.graph[2].execFails = k] :
             m \in (0 - 1)..1, k \in 0..1 }

NoRetryInit ==
    /\ \E s \in NoRetryScenarios, par \in BOOLEAN :
          /\ graph = [s.graph EXCEPT ![s.top].kind =
                         IF @ = "Flow" /\ par THEN "ParallelFlow" ELSE @]
          /\ top = s.top
    /\ frames = <<>>
    /\ glob = Empty
    /\ runs = <<>>
    /\ mem = NoneVal
    /\ last = NoneVal
    /\ heap = <<>>

\* one run of such a Node, or of a Flow over it
NoRetrySpec == NoRetryInit /\ [][NextOfRun]_vars

\* ------------------------------------------------ graphs that revisit steps
\* loops, several triggers or branches reaching one step, and nested Flows
\* entered more than once, with max_visits around the number of visits; and a
\* failing step
VisitScenarios ==
    { LoopGraph(n) : n \in 1..MaxVisits }
    \cup { MutualLoopGraph(n) : n \in 1..MaxVisits }
    \cup { ConvergeGraph(k, n) : k \in 1..MaxBranches, n \in 1..MaxVisits }
    \cup { [DiamondGraph EXCEPT !.graph[5].max_visits = n] : n \in 1..2 }
    \cup { NestedLoopGraph(n) : n \in 1..MaxVisits }
    \cup { [NestedChainGraph EXCEPT !.graph[2].max_visits = 1] }
    \cup { WithFailure(FanGraph, 2, "exec") }

VisitInit ==
    /\ \E s \in VisitScenarios, par \in BOOLEAN :
          /\ graph = [s.graph EXCEPT ![s.top].kind = IF par THEN "ParallelFlow" ELSE "Flow"]
          /\ top = s.top
    /\ frames = <<>>
    /\ glob = Empty
    /\ runs = <<>>
    /\ mem = NoneVal
    /\ last = NoneVal
    /\ heap = <<>>

\* one run of a Flow or ParallelFlow over such a graph
VisitSpec == VisitInit /\ [][NextOfRun]_vars
\* the same, the event loop running whatever is ready to run
VisitFairSpec == VisitInit /\ [][NextOfRun]_vars /\ Fairness

\* ------------------------------------------- the cookbook's fan-in

FanInInit ==
    \* every chunk is processed, or processing a chunk raises; the steps are
    \* run by a ParallelFlow (python-batch-node) or a Flow (python-map-reduce)
    /\ \E N \in 1..MaxBranches, fails \in BOOLEAN, par \in BOOLEAN :
          LET g == IF fails THEN WithFailure(FanInGraph(N), 2, "exec") ELSE FanInGraph(N)
          IN  /\ graph = [g.graph EXCEPT ![g.top].kind = IF par THEN "ParallelFlow" ELSE "Flow"]
              /\ top = g.top
    /\ frames = <<>>
    /\ glob = Empty
    /\ runs = <<>>
    /\ mem = NoneVal
    /\ last = NoneVal
    /\ heap = <<>>

\* one run of the fan-out / fan-in flow
FanInSpec == FanInInit /\ [][NextOfRun]_vars

\* ------------------------------------------------ a Memory used directly
\* the keys and values tried, one of the keys a reserved name (a store can hold
\* it: Memory accepts any mapping, and the local accessor writes any key)
MemKeys == {"a", "b", "local"}
MemValues == {"v1", "v2"}
Stores == UNION { [S -> MemValues] : S \in SUBSET MemKeys }

\* the caller builds Memory(global, local)          (Memory.__init__, lines 57-59)
MemoryInit ==
    /\ mem \in [global : Stores, local : Stores]
    /\ last = NoneVal
    /\ graph = <<>> /\ top = 0 /\ frames = <<>> /\ glob = Empty /\ runs = <<>> /\ heap = <<>>

\* what the caller of a Memory operation saw: the operation, the Memory before
\* it, and its result or error
MemOutcome(op, key, value, res) ==
    [op |-> op, key |-> key, value |-> value, before |-> mem, res |-> res]

\* memory[key]
GetItem(key) ==
    /\ last' = MemOutcome("getitem", key, "", MemGetItem(mem, key))
    /\ UNCHANGED <<graph, top, frames, glob, runs, mem, heap>>

\* memory.<key>
GetAttr(key) ==
    /\ last' = MemOutcome("getattr", key, "", MemGetAttr(mem, key))
    /\ UNCHANGED <<graph, top, frames, glob, runs, mem, heap>>

\* key in memory
Contains(key) ==
    /\ last' = MemOutcome("contains", key, "", [ok |-> TRUE, value |-> MemContains(mem, key)])
    /\ UNCHANGED <<graph, top, frames, glob, runs, mem, heap>>

\* memory[key] = value, memory.<key> = value         (lines 67-68)
SetValue(key, value) ==
    /\ mem' = MemSet(mem, key, value)
    /\ last' = MemOutcome("set", key, value,
                          IF MemSetRaises(key) THEN [ok |-> FALSE, error |-> "AssertionError"]
                          ELSE [ok |-> TRUE])
    /\ UNCHANGED <<graph, top, frames, glob, runs, heap>>

\* del memory[key], del memory.<key>                 (lines 69-70)
Delete(key) ==
    LET d == MemDel(mem, key)
    IN  /\ mem' = d.mem
        /\ last' = MemOutcome("delete", key, "",
                              IF d.ok THEN [ok |-> TRUE] ELSE [ok |-> FALSE, error |-> d.error])
        /\ UNCHANGED <<graph, top, frames, glob, runs, heap>>

\* memory.local[key]
LocalGetItem(key) ==
    /\ last' = MemOutcome("local_get", key, "", LocalGet(mem, key))
    /\ UNCHANGED <<graph, top, frames, glob, runs, mem, heap>>

\* key in memory.local
LocalHas(key) ==
    /\ last' = MemOutcome("local_contains", key, "", [ok |-> TRUE, value |-> LocalContains(mem, key)])
    /\ UNCHANGED <<graph, top, frames, glob, runs, mem, heap>>

\* memory.local[key] = value, memory.local.<key> = value
LocalSetValue(key, value) ==
    /\ mem' = LocalSet(mem, key, value)
    /\ last' = MemOutcome("local_set", key, value, [ok |-> TRUE])
    /\ UNCHANGED <<graph, top, frames, glob, runs, heap>>

\* del memory.local[key], del memory.local.<key>
LocalDelete(key) ==
    LET d == LocalDel(mem, key)
    IN  /\ mem' = d.mem
        /\ last' = MemOutcome("local_delete", key, "",
                              IF d.ok THEN [ok |-> TRUE] ELSE [ok |-> FALSE, error |-> d.error])
        /\ UNCHANGED <<graph, top, frames, glob, runs, heap>>

MemoryNext ==
    \/ \E key \in MemKeys : GetItem(key)
    \/ \E key \in MemKeys : GetAttr(key)
    \/ \E key \in MemKeys : Contains(key)
    \/ \E key \in MemKeys, value \in MemValues : SetValue(key, value)
    \/ \E key \in MemKeys : Delete(key)
    \/ \E key \in MemKeys : LocalGetItem(key)
    \/ \E key \in MemKeys : LocalHas(key)
    \/ \E key \in MemKeys, value \in MemValues : LocalSetValue(key, value)
    \/ \E key \in MemKeys : LocalDelete(key)

\* a caller operating on a Memory it built
MemorySpec == MemoryInit /\ [][MemoryNext]_vars

\* ------------------------------------------- Memory.clone, on objects
\* heap[id] is a mapping object (a dict); a value under a key is an atom or a
\* reference to another mapping object.  A Memory is the pair of the ids of its
\* global and local mappings.
Atom(v) == [atom |-> v]
Ref(id) == [ref |-> id]
IsRef(x) == "ref" \in DOMAIN x
Refs(h, id) == {h[id][k].ref : k \in {j \in DOMAIN h[id] : IsRef(h[id][j])}}

RECURSIVE Reach(_, _)
\* the objects reachable from the objects S
Reach(h, S) ==
    LET T == S \cup UNION {Refs(h, i) : i \in S}
    IN  IF T = S THEN S ELSE Reach(h, T)

\* mutant of DeepCopy: copy.copy, the nested objects stay shared
ShallowCopy(h, id) == [heap |-> Append(h, h[id]), id |-> Len(h) + 1]

\* copy.deepcopy(heap[id]): a new object for every object reachable from id,
\* references between them renamed to the new objects (lines 73-74)
DeepCopy(h, id) ==
    LET objs == SortedSeq(Reach(h, {id}))
        new(r) == Len(h) + (CHOOSE i \in 1..Len(objs) : objs[i] = r)
        copy(o) == [k \in DOMAIN h[o] |->
                      IF IsRef(h[o][k]) THEN Ref(new(h[o][k].ref)) ELSE h[o][k]]
    IN  [heap |-> h \o [i \in 1..Len(objs) |-> copy(objs[i])], id |-> new(id)]

\* Memory.clone (lines 72-75) and the Memory.__init__ it ends with (lines 57-59);
\* f is the id of the forking data, 0 for None
MemoryClone(h, m, f) ==
    LET new_local == DeepCopy(h, m.local)
        \* forking_data or {}
        given == IF f = 0 \/ DOMAIN h[f] = {}
                 THEN [heap |-> Append(new_local.heap, Empty), id |-> Len(new_local.heap) + 1]
                 ELSE [heap |-> new_local.heap, id |-> f]
        data == DeepCopy(given.heap, given.id)
        \* new_local.update(...)
        updated == [data.heap EXCEPT ![new_local.id] = Merge(@, data.heap[data.id])]
    IN  \* _local if _local else {}
        IF DOMAIN updated[new_local.id] = {}
        THEN [heap |-> Append(updated, Empty),
              mem |-> [global |-> m.global, local |-> Len(updated) + 1]]
        ELSE [heap |-> updated, mem |-> [global |-> m.global, local |-> new_local.id]]

MaxMutations == 1   \* mutations the caller makes after the clone

\* the objects the caller starts with: 1 the global mapping, 2 the local
\* mapping, 3 a mapping to pass as forking data, 4 and 5 nested mappings
CloneHeaps ==
    { << g, l, f, ("x" :> Atom("v1")), ("x" :> Atom("v1")) >> :
        g \in { Empty, ("g" :> Atom("v1")), ("g" :> Ref(4)) },
        l \in { Empty, ("a" :> Atom("v1")), ("a" :> Ref(4)),
                ("a" :> Ref(4)) @@ ("b" :> Atom("v1")) },
        f \in { Empty, ("a" :> Atom("v2")), ("a" :> Ref(4)), ("b" :> Ref(5)) } }

\* the caller holds m = Memory(global, local) and a forking-data mapping
CloneInit ==
    /\ heap \in CloneHeaps
    /\ mem = [global |-> 1, local |-> 2]
    /\ last = NoneVal
    /\ graph = <<>> /\ top = 0 /\ frames = <<>> /\ glob = Empty /\ runs = <<>>

\* what the caller holds after an operation: the clone, the forking data it
\* passed, the heap before the operation, and what the operation was
CloneOutcome(op, f, clone, side, obj, key, n) ==
    [op |-> op, f |-> f, clone |-> clone, side |-> side, obj |-> obj, key |-> key,
     n |-> n, before |-> heap]

\* c = m.clone() or c = m.clone(f)
Clone ==
    /\ last = NoneVal
    /\ \E f \in {0, 3} :
          LET c == MemoryClone(heap, mem, f)
          IN  /\ heap' = c.heap
              /\ last' = CloneOutcome("clone", f, c.mem, "", 0, "", 0)
    /\ UNCHANGED <<graph, top, frames, glob, runs, mem>>

\* the objects held through the local store of m, through that of the clone,
\* and through the forking data
Held(side) ==
    Reach(heap, {IF side = "m" THEN mem.local
                 ELSE IF side = "c" THEN last.clone.local ELSE 3})

\* a mutation of a local store or of a value nested in it, made through m
\* (m.local.a = v, m.local.a["x"] = v, del m.local.a ...), through the clone,
\* or of the forking data by whoever passed it
Mutate(side, obj, key, del) ==
    /\ last # NoneVal /\ last.n < MaxMutations
    /\ obj \in Held(side)
    /\ IF del THEN key \in DOMAIN heap[obj] ELSE TRUE
    /\ heap' = [heap EXCEPT ![obj] = IF del THEN Without(@, key) ELSE Merge(@, key :> Atom("v3"))]
    /\ last' = CloneOutcome("mutate", last.f, last.clone, side, obj, key, last.n + 1)
    /\ UNCHANGED <<graph, top, frames, glob, runs, mem>>

\* a write through the primary path of m or of the clone: Memory._set_value
\* (lines 64-66) on the objects of that Memory
GlobalWrite(side, key) ==
    LET w == IF side = "m" THEN mem ELSE last.clone
        h == IF key \in DOMAIN heap[w.local] THEN [heap EXCEPT ![w.local] = Without(@, key)] ELSE heap
    IN  /\ last # NoneVal /\ last.n < MaxMutations
        /\ heap' = [h EXCEPT ![w.global] = Merge(@, key :> Atom("v3"))]
        /\ last' = CloneOutcome("write", last.f, last.clone, side, w.global, key, last.n + 1)
        /\ UNCHANGED <<graph, top, frames, glob, runs, mem>>

CloneNext ==
    \/ Clone
    \/ \E side \in {"m", "c", "f"}, obj \in 1..Len(heap), key \in {"a", "x"}, del \in BOOLEAN :
          Mutate(side, obj, key, del)
    \/ \E side \in {"m", "c"}, key \in {"a", "g"} : GlobalWrite(side, key)

\* a caller cloning a Memory and then mutating what it holds
CloneSpec == CloneInit /\ [][CloneNext]_vars

\* ---------------------------------------------------- BaseNode.clone
\* In this part graph is the store of node objects, by identity: the wired
\* graph first, the clones after it.
MaxNodes == 3       \* nodes of the graphs cloned

\* the successor graphs tried: every node has no default successor, one (any
\* node, itself included) or the two nodes 2 and 3, and may have node 1 as
\* successor on a second action
CloneGraphs ==
    LET Defaults == {<<>>, <<2, 3>>} \cup {<<j>> : j \in 1..MaxNodes}
        Others == {<<>>, <<1>>}
        Wired(d, x) == Nd("Node", Merge(IF d = <<>> THEN Empty ELSE ("default" :> d),
                                        IF x = <<>> THEN Empty ELSE ("x" :> x)), <<>>)
    IN  [1..MaxNodes -> {Wired(d, x) : d \in Defaults, x \in Others}]

\* self.successors.items(), flattened: one (action, node) entry per successor
SuccessorItems(node) ==
    LET actions == SelectSeq(<<"default", "x">>, LAMBDA a : a \in DOMAIN node.successors)
        of(a) == [i \in 1..Len(node.successors[a]) |-> [action |-> a, node |-> node.successors[a][i]]]
    IN  IF Len(actions) = 0 THEN <<>>
        ELSE IF Len(actions) = 1 THEN of(actions[1])
        ELSE of(actions[1]) \o of(actions[2])

\* mutant of NodeClone: the clone keeps the successor lists of the original
NodeCloneShallow(h, seen, n) ==
    IF n \in DOMAIN seen THEN [heap |-> h, seen |-> seen, id |-> seen[n]]
    ELSE [heap |-> Append(h, h[n]), seen |-> Merge(seen, n :> (Len(h) + 1)), id |-> Len(h) + 1]

RECURSIVE NodeClone(_, _, _)
RECURSIVE CloneSuccessors(_, _, _, _, _)

\* BaseNode.clone, lines 105-114 and 118: a node already in seen is answered
\* from it; otherwise a new object is made, entered in seen, given the
\* attributes of the original, and then its successors
NodeClone(h, seen, n) ==
    IF n \in DOMAIN seen THEN [heap |-> h, seen |-> seen, id |-> seen[n]]
    ELSE LET cloned == Len(h) + 1
         IN  CloneSuccessors(Append(h, [h[n] EXCEPT !.successors = Empty]),
                             Merge(seen, n :> cloned), cloned, SuccessorItems(h[n]), 1)

\* lines 115-116: each successor is cloned with the same seen map, and the
\* clone's list for the action holds the clones
CloneSuccessors(h, seen, cloned, items, i) ==
    IF i > Len(items) THEN [heap |-> h, seen |-> seen, id |-> cloned]
    ELSE LET r == NodeClone(h, seen, items[i].node)
             a == items[i].action
             sofar == r.heap[cloned].successors
             list == IF a \in DOMAIN sofar THEN sofar[a] ELSE <<>>
         IN  CloneSuccessors([r.heap EXCEPT ![cloned].successors = Merge(@, a :> Append(list, r.id))],
                             r.seen, cloned, items, i + 1)

NodeCloneInit ==
    /\ graph \in CloneGraphs
    /\ top = 0 /\ frames = <<>> /\ glob = Empty /\ runs = <<>>
    /\ mem = NoneVal /\ last = NoneVal /\ heap = <<>>

\* cloned = node.clone(): seen starts empty (line 105)
CloneNode(n) ==
    LET r == NodeClone(graph, Empty, n)
    IN  /\ last = NoneVal
        /\ graph' = r.heap
        /\ last' = [op |-> "node_clone", start |-> n, before |-> graph,
                     id |-> r.id, seen |-> r.seen]
        /\ UNCHANGED <<top, frames, glob, runs, mem, heap>>

NodeCloneNext == \E n \in 1..MaxNodes : CloneNode(n)

\* a caller cloning a node of a wired graph
NodeCloneSpec == NodeCloneInit /\ [][NodeCloneNext]_vars

\* ------------------------------------------------ wiring: on and next
\* In this part graph holds the node objects being wired, runs the
\* registrations the caller has made so far, in order, and last what the
\* latest call returned.
MaxRegistrations == 3   \* registrations the caller makes
WiredNodes == 2         \* node objects being wired
WiringActions == {DEFAULT_ACTION, "x", "y"}

\* mutant of On: a registration replaces the list of the action
OnReplacing(node, action, target) ==
    [node EXCEPT !.successors = Merge(@, action :> <<target>>)]

\* BaseNode.on, lines 121-123: the list of the action is created when missing,
\* and the node appended to it
On(node, action, target) ==
    LET list == IF action \in DOMAIN node.successors THEN node.successors[action] ELSE <<>>
    IN  [node EXCEPT !.successors = Merge(@, action :> Append(list, target))]

WiringInit ==
    /\ graph = [i \in 1..WiredNodes |-> Nd("Node", Empty, <<>>)]
    /\ top = 0 /\ frames = <<>> /\ glob = Empty /\ runs = <<>>
    /\ mem = NoneVal /\ last = NoneVal /\ heap = <<>>

\* what a registration does and returns (line 124: the node registered)
Register(op, n, action, target) ==
    /\ Len(runs) < MaxRegistrations
    /\ graph' = [graph EXCEPT ![n] = On(@, action, target)]
    /\ runs' = Append(runs, [self |-> n, action |-> action, node |-> target])
    /\ last' = [op |-> op, self |-> n, action |-> action, res |-> target]
    /\ UNCHANGED <<top, frames, glob, mem, heap>>

\* n.on(action, target)
OnCall(n, action, target) == Register("on", n, action, target)

\* n.next(target, action) and n.next(target), lines 126-128
NextCall(n, target, action) == Register("next", n, action, target)

\* n.get_next_nodes(action)
GetNextNodesCall(n, action) ==
    /\ last' = [op |-> "get_next_nodes", self |-> n, action |-> action,
                 res |-> GetNextNodes(n, action)]
    /\ UNCHANGED <<graph, top, frames, glob, runs, mem, heap>>

WiringNext ==
    \/ \E n \in 1..WiredNodes, a \in WiringActions, t \in 1..WiredNodes : OnCall(n, a, t)
    \/ \E n \in 1..WiredNodes, a \in WiringActions, t \in 1..WiredNodes : NextCall(n, t, a)
    \/ \E n \in 1..WiredNodes, a \in WiringActions : GetNextNodesCall(n, a)

\* a caller wiring node objects and asking for their successors
WiringSpec == WiringInit /\ [][WiringNext]_vars

\* ----------------------------------------------- direct calls to trigger
\* BaseNode.trigger, lines 164-165: the assertion on the lock, then the append
TriggerCall(locked, triggers, action, forking_data) ==
    IF locked
    THEN [raised |-> TRUE, triggers |-> triggers]
    ELSE [raised |-> FALSE, triggers |-> Append(triggers, Trig(action, forking_data))]

\* what the caller of trigger saw
TriggerOutcome(res, before) ==
    [op |-> "trigger", raised |-> res.raised, appended |-> res.triggers # before]

Probes(triggers) == Cardinality({i \in 1..Len(triggers) : triggers[i].action = "probe"})

\* trigger called on the object the caller built, before it is run: the lock
\* is as __init__ left it (line 99)
TriggerBeforeRun ==
    LET res == TriggerCall(TRUE, <<>>, "probe", Empty)
    IN  /\ frames = <<>>
        /\ last' = TriggerOutcome(res, <<>>)
        /\ UNCHANGED <<graph, top, frames, glob, runs, mem, heap>>

\* trigger called on the node object of frame f while its post is not running:
\* by its own prep, exec or exec_fallback, or by whoever holds the object once
\* its run has returned or raised
TriggerOutsidePost(f) ==
    LET fr == frames[f]
        res == TriggerCall(fr.locked, fr.triggers, "probe", Empty)
    IN  /\ fr.pc # "posting"
        /\ Probes(fr.triggers) < MaxProbes
        /\ frames' = [frames EXCEPT ![f].triggers = res.triggers]
        /\ last' = TriggerOutcome(res, fr.triggers)
        /\ UNCHANGED <<graph, top, glob, runs, mem, heap>>

NextProbe ==
    \/ Next
    \/ TriggerBeforeRun
    \/ \E f \in FrameIds : TriggerOutsidePost(f)

\* the engine with trigger also called from outside post
ProbeSpec == Init /\ [][NextProbe]_vars

\* =================================================================== claims
IsPrefix(a, b) == Len(a) <= Len(b) /\ \A i \in 1..Len(a) : a[i] = b[i]
Running == frames # <<>>

\* ------------------------------------------------------------------- C1
\* the caller's Flow starts on a plain step that is its own successor on the
\* default action, never triggers explicitly and never raises
IsSelfLoop ==
    /\ IsFlow(top)
    /\ LET s == graph[top].start
       IN  /\ graph[s].kind = "Node"
           /\ GetNextNodes(s, DEFAULT_ACTION) = <<s>>
           /\ graph[s].trig = <<>>
           /\ ~graph[s].prepFails /\ ~graph[s].postFails /\ graph[s].execFails = 0

VisitsOf(s) == {f \in FrameIds : frames[f].node = s /\ frames[f].flow = 1}
FullLifecycle == <<"prep", "exec", "post">>

\* C1: a step wired as its own successor on the default action, in a Flow with
\* max_visits = N >= 1, runs its lifecycle (prep, exec, post) exactly N times;
\* the (N+1)-th visit fails the run with the cycle-limit error, and that visit
\* calls no callback (its prep never starts); the run never returns normally.
C1_CycleBound ==
    (IsSelfLoop /\ Running) =>
        LET s == graph[top].start
            N == graph[top].max_visits
            visits == VisitsOf(s)
            begun == {f \in visits : frames[f].log # <<>>}
            complete == {f \in visits : frames[f].log = FullLifecycle}
        IN  /\ Cardinality(begun) <= N
            /\ \A f \in visits : IsPrefix(frames[f].log, FullLifecycle)
            /\ ~Succeeded(frames[1])
            /\ Failed(frames[1]) =>
                  /\ Cardinality(complete) = N
                  /\ Cardinality(visits) = N + 1
                  /\ frames[1].err = Err("CycleLimit", s, 0)
                  /\ \E f \in visits :
                        /\ \A g \in visits : g <= f
                        /\ frames[f].pc = "failed"
                        /\ frames[f].log = <<>>
                        /\ frames[f].err = Err("CycleLimit", s, 0)

\* a self-loop run with max_visits >= 2 has raised to the caller
C1_Witness ==
    /\ IsSelfLoop /\ Running
    /\ graph[top].max_visits >= 2
    /\ frames[1].pc = "raised"
    /\ Cardinality({f \in VisitsOf(graph[top].start) : frames[f].log = FullLifecycle})
          = graph[top].max_visits

\* ------------------------------------------------------------------- C2
NodeFrames == {f \in FrameIds : graph[frames[f].node].kind = "Node"}
\* the frame has returned from post
Posted(fr) == fr.pc \in {"dispatch", "wait", "done", "returned"} \/ (Failed(fr) /\ fr.pairs # <<>>)
\* the frame's exec_runner has returned a value
ExecReturned(fr) == fr.pc \in {"post", "posting", "dispatch", "wait", "done", "returned"} \/ fr.npost > 0
Repeat(x, k) == [i \in 1..k |-> x]
IsStandalone == ~IsFlow(top)
\* the caller's latest run call returned v (the exec result), or, called with
\* propagate, the pairs of list_triggers
RunReturned(v) ==
    LET r == runs[Len(runs)]
    IN  r.result = IF r.propagate THEN frames[1].pairs ELSE v

\* C2: a Node.run that completes without error has called prep exactly once,
\* then exec one or more times (then exec_fallback at most once), then post
\* exactly once, in that order; post was handed what prep returned and what
\* exec (or the fallback) returned; a standalone run returns that exec or
\* fallback result and runs no successor of the node.
C2_LifecycleOrder ==
    /\ \A f \in NodeFrames :
          LET fr == frames[f]
              n == fr.node
          IN  Posted(fr) =>
                /\ \E k \in 1..(MaxRetries + 1), fb \in 0..1 :
                      fr.log = <<"prep">> \o Repeat("exec", k)
                                  \o Repeat("exec_fallback", fb) \o <<"post">>
                /\ fr.nprep = 1 /\ fr.npost = 1 /\ fr.nexec >= 1
                /\ fr.prep_res = Val("prep", n)
                /\ fr.exec_res = IF fr.nfallback = 0 THEN Val("exec", n) ELSE Val("fallback", n)
                /\ fr.post_args = <<Val("prep", n), fr.exec_res>>
    /\ (IsStandalone /\ Running) =>
          /\ Len(frames) = 1
          /\ frames[1].pc = "returned" =>
                /\ runs[Len(runs)].ok
                /\ RunReturned(frames[1].exec_res)
                /\ frames[1].exec_res # NoneVal

\* a standalone node that has successors has returned after one failed and
\* one successful exec attempt
C2_Witness ==
    /\ IsStandalone /\ Running
    /\ frames[1].pc = "returned"
    /\ GetNextNodes(top, DEFAULT_ACTION) # <<>>
    /\ frames[1].log = <<"prep", "exec", "exec", "post">>
    /\ ~frames[1].propagate

\* ------------------------------------------------------------------- C3
\* frames of a Node whose exec fails exactly k < max_retries times, whose prep
\* does not raise
RecoveringFrames ==
    {f \in NodeFrames : /\ graph[frames[f].node].execFails < graph[frames[f].node].max_retries
                        /\ ~graph[frames[f].node].prepFails}

\* C3: if exec fails exactly k times, k < max_retries, and then succeeds, run
\* returns the success value, exec was called exactly k+1 times and always
\* with the same prep result, prep was called exactly once and exec_fallback
\* never.
C3_RetryThenSuccess ==
    \A f \in RecoveringFrames :
        LET fr == frames[f]
            n == fr.node
            k == graph[n].execFails
        IN  /\ fr.nfallback = 0
            /\ fr.nexec <= k + 1
            /\ fr.exec_args \subseteq {Val("prep", n)}
            /\ fr.nprep <= 1
            /\ ExecReturned(fr) =>
                  /\ fr.nexec = k + 1
                  /\ fr.nprep = 1
                  /\ fr.exec_args = {Val("prep", n)}
                  /\ fr.exec_res = Val("exec", n)
            /\ (f = 1 /\ fr.pc \in {"returned", "raised"} /\ ~graph[n].postFails) =>
                  /\ runs[Len(runs)].ok
                  /\ RunReturned(Val("exec", n))

\* a standalone node with max_retries = 3 has returned after exactly 2 failures
C3_Witness ==
    /\ IsStandalone /\ Running
    /\ 1 \in RecoveringFrames
    /\ graph[top].execFails = 2
    /\ frames[1].pc = "returned"
    /\ frames[1].nexec = 3
    /\ ~frames[1].propagate

\* ------------------------------------------------------------------- C4
\* frames of a Node whose exec fails on every attempt, max_retries >= 1
ExhaustedFrames ==
    {f \in NodeFrames : /\ graph[frames[f].node].max_retries >= 1
                        /\ graph[frames[f].node].execFails >= graph[frames[f].node].max_retries
                        /\ ~graph[frames[f].node].prepFails}

\* C4: if exec fails on every attempt of a Node with max_retries = N >= 1, exec
\* is called exactly N times and then exec_fallback exactly once; if the
\* fallback returns a value, run returns that value and post receives it as
\* the exec result.
C4_FallbackAfterRetries ==
    \A f \in ExhaustedFrames :
        LET fr == frames[f]
            n == fr.node
            N == graph[n].max_retries
        IN  /\ fr.nexec <= N /\ fr.nfallback <= 1
            /\ fr.nfallback = 1 => fr.nexec = N
            /\ (ExecReturned(fr) \/ (Failed(fr) /\ fr.nexec > 0)) =>
                  /\ fr.nexec = N /\ fr.nfallback = 1
                  /\ fr.log = <<"prep">> \o Repeat("exec", N) \o <<"exec_fallback">>
                                \o Repeat("post", fr.npost)
            /\ graph[n].fallback = "value" =>
                  /\ ~Failed(fr) \/ graph[n].postFails
                  /\ fr.npost = 1 => fr.post_args = <<Val("prep", n), Val("fallback", n)>>
                  /\ (f = 1 /\ fr.pc = "returned") =>
                        /\ runs[Len(runs)].ok
                        /\ RunReturned(Val("fallback", n))

\* a standalone node with max_retries = 2 whose exec always fails has returned
\* its fallback's value
C4_Witness ==
    /\ IsStandalone /\ Running
    /\ 1 \in ExhaustedFrames
    /\ graph[top].max_retries = 2
    /\ graph[top].fallback = "value"
    /\ frames[1].pc = "returned"
    /\ frames[1].nexec = 2 /\ frames[1].nfallback = 1
    /\ ~frames[1].propagate

\* ------------------------------------------------------------------- C5
\* the nodes run_node was called on for pair i of frame f, in the order of the calls
ChildNodes(f, i) ==
    LET ids == SortedSeq({g \in FrameIds : frames[g].parent = f /\ frames[g].pidx = i})
    IN  [k \in 1..Len(ids) |-> frames[ids[k]].node]
\* the nodes wired to node n for action a by on / next, in registration order
RegisteredFor(n, a) ==
    IF a \in DOMAIN graph[n].successors THEN graph[n].successors[a] ELSE <<>>
\* the steps visited by a Flow
Visited == {f \in FrameIds : frames[f].parent # 0}
Range(q) == {q[i] : i \in DOMAIN q}

\* C5: for each (action, derived memory) pair produced by a visited step, the
\* Flow runs every successor registered for that action on that step exactly
\* once for that pair, in registration order (all of them by the time the
\* visit returns, a prefix of them at any earlier moment), and never runs a
\* successor registered only under actions the step did not trigger; the pairs
\* are the step's triggers in order, or the single default pair.
C5_SuccessorsRun ==
    \A f \in Visited :
        LET fr == frames[f]
            n == fr.node
        IN  /\ \A g \in FrameIds :
                  (frames[g].parent = f /\ frames[g].pidx # 0) =>
                      /\ frames[g].pidx \in 1..Len(fr.pairs)
                      /\ frames[g].node \in Range(RegisteredFor(n, fr.pairs[frames[g].pidx].action))
            /\ \A i \in 1..Len(fr.pairs) :
                  /\ IsPrefix(ChildNodes(f, i), RegisteredFor(n, fr.pairs[i].action))
                  /\ fr.pc = "done" => ChildNodes(f, i) = RegisteredFor(n, fr.pairs[i].action)
            /\ (Posted(fr) /\ ~IsFlow(n)) =>
                  IF graph[n].trig = <<>>
                  THEN Len(fr.pairs) = 1 /\ fr.pairs[1].action = DEFAULT_ACTION
                  ELSE /\ Len(fr.pairs) = Len(graph[n].trig)
                       /\ \A i \in 1..Len(fr.pairs) : fr.pairs[i].action = graph[n].trig[i].action

\* a step with successors on x (two), y and default triggered x then y and has
\* returned: both successors of x and the one of y ran, the one of default did
\* not run for it
C5_Witness ==
    \E f \in Visited :
        /\ frames[f].pc = "done"
        /\ Len(frames[f].pairs) = 2
        /\ Len(ChildNodes(f, 1)) = 2
        /\ Len(ChildNodes(f, 2)) = 1
        /\ RegisteredFor(frames[f].node, DEFAULT_ACTION) # <<>>

\* ------------------------------------------------------------------- C6
RECURSIVE IsAncestor(_, _)
\* frame a awaits frame d, directly or through other frames
IsAncestor(a, d) ==
    /\ d # 0
    /\ frames[d].parent # 0
    /\ (frames[d].parent = a \/ IsAncestor(a, frames[d].parent))
Subtree(a) == {d \in FrameIds : d = a \/ IsAncestor(a, d)}
\* frames a and b are branches of the same step: for two of its triggers or for
\* two successors of one action
Siblings(a, b) ==
    /\ a # b
    /\ frames[a].parent = frames[b].parent
    /\ frames[a].pidx # 0 /\ frames[b].pidx # 0
InSequentialFlow(f) == frames[f].flow # 0 /\ graph[frames[frames[f].flow].node].kind = "Flow"

\* C6: in a Flow, sibling branches run strictly one after another: whenever a
\* later branch B has been started, the earlier branch A and every step in A's
\* subtree have completed.
C6_SequentialBranches ==
    \A a \in FrameIds : \A b \in FrameIds :
        (a < b /\ Siblings(a, b) /\ InSequentialFlow(a)) =>
            \A d \in Subtree(a) : frames[d].pc = "done"

\* in a Flow, a second branch is in its prep while the first branch had a
\* successor of its own
C6_Witness ==
    \E a \in FrameIds : \E b \in FrameIds :
        /\ a < b /\ Siblings(a, b) /\ InSequentialFlow(a)
        /\ Cardinality(Subtree(a)) >= 2
        /\ frames[b].pc = "prep"

\* ------------------------------------------------------------------- C7
InParallelFlow(f) == frames[f].flow # 0 /\ graph[frames[frames[f].flow].node].kind = "ParallelFlow"
\* the next step of frame g's own lifecycle
StepOf(g) ==
    \/ Enter(g) \/ Prep(g) \/ Exec(g) \/ ExecFallback(g) \/ ExecFlow(g) \/ Unlock(g) \/ Post(g)
    \/ Dispatch(g)

\* C7: in a ParallelFlow, once a step awaits its batch every sibling branch of
\* the batch has been started; no branch waits for a sibling (whatever the
\* siblings are doing, a branch that has not handed over to its own batch can
\* take its next step); and a step returns only after every branch of its
\* batch and their subtrees have returned, at every nesting level, so that
\* run returns only when nothing is left running.
C7_ParallelBranches ==
    /\ \A f \in FrameIds :
          LET fr == frames[f]
          IN  InParallelFlow(f) =>
                /\ fr.pc \in {"wait", "done"} =>
                      \A i \in 1..Len(fr.pairs) :
                          ChildNodes(f, i) = RegisteredFor(fr.node, fr.pairs[i].action)
                /\ fr.pc \in {"enter", "prep", "exec", "fallback", "post", "posting", "dispatch"} =>
                      ENABLED StepOf(f)
                /\ fr.pc = "done" => \A d \in Subtree(f) : frames[d].pc = "done"
    /\ (Running /\ graph[top].kind = "ParallelFlow" /\ frames[1].pc \in {"done", "returned"}) =>
          \A f \in FrameIds : Succeeded(frames[f])

\* in a ParallelFlow, the successor of a fast branch has run its prep while the
\* slower sibling branch is still in its exec phase
C7_Witness ==
    \E a \in FrameIds : \E b \in FrameIds : \E d \in FrameIds :
        /\ Siblings(a, b) /\ InParallelFlow(a)
        /\ frames[d].parent = a /\ frames[d].pidx # 0
        /\ frames[d].nprep = 1
        /\ frames[b].pc = "exec"

\* ------------------------------------------------------------------- C8
IsTerminal(n) == DOMAIN graph[n].successors = {} /\ graph[n].trig = <<>>
\* the start step triggers two distinct actions, each resolving to one
\* terminal successor
IsFanOut ==
    /\ IsFlow(top)
    /\ LET s == graph[top].start
       IN  /\ Len(graph[s].trig) = 2
           /\ graph[s].trig[1].action # graph[s].trig[2].action
           /\ \A i \in 1..2 :
                 /\ Len(RegisteredFor(s, graph[s].trig[i].action)) = 1
                 /\ IsTerminal(RegisteredFor(s, graph[s].trig[i].action)[1])

\* C8: for a start step that triggers actions x and y, each resolving to one
\* terminal successor, a Flow and a ParallelFlow over the graph return equal
\* execution records, whose triggered mapping has exactly the keys x and y,
\* each with the record of its one successor; this for every interleaving of
\* the parallel branches.
C8_SameTree ==
    IsFanOut =>
        \A i \in 1..Len(runs) : \A j \in 1..Len(runs) :
            (/\ runs[i].kind = "Flow" /\ runs[j].kind = "ParallelFlow"
             /\ runs[i].ok /\ runs[j].ok
             /\ ~runs[i].propagate /\ ~runs[j].propagate) =>
                LET s == graph[top].start
                    x == graph[s].trig[1].action
                    y == graph[s].trig[2].action
                    Leaf(a) == [order |-> RegisteredFor(s, a)[1], type |-> "Node",
                                triggered |-> NoneVal]
                IN  /\ runs[i].result = runs[j].result
                    /\ runs[j].result.order = s
                    /\ DOMAIN runs[j].result.triggered = {x, y}
                    /\ runs[j].result.triggered[x] = << Leaf(x) >>
                    /\ runs[j].result.triggered[y] = << Leaf(y) >>

\* both kinds of Flow have been run over the fan-out graph and have returned
C8_Witness ==
    /\ IsFanOut
    /\ Len(runs) >= 2
    /\ runs[1].ok /\ runs[2].ok
    /\ ~runs[1].propagate /\ ~runs[2].propagate
    /\ runs[1].kind # runs[2].kind

\* ------------------------------------------------------------------- C9
ParallelTop == Running /\ graph[top].kind = "ParallelFlow"
SomeFailed == \E f \in FrameIds : Failed(frames[f])
Quiescent == Running /\ \A f \in FrameIds : Finished(frames[f])
\* the callbacks of the frame's node raise nothing
HealthyNode(f) ==
    LET nd == graph[frames[f].node]
    IN  /\ nd.kind = "Node"
        /\ ~nd.prepFails /\ ~nd.postFails
        /\ nd.execFails < nd.max_retries
\* the frame's run_node got past the visit check
Entered(f) == ~(Failed(frames[f]) /\ frames[f].log = <<>> /\ frames[f].raised = NoneVal)

\* the callbacks of a whole lifecycle: prep, exec (again after each failed
\* attempt) and post
RanLifecycle(log) ==
    /\ Len(log) >= 3
    /\ log[1] = "prep" /\ log[Len(log)] = "post"
    /\ \A i \in 2..(Len(log) - 1) : log[i] = "exec"

\* what C9 says of the frames once nothing is left to run
C9_AllRan ==
    (ParallelTop /\ Quiescent) =>
        \A f \in FrameIds :
            (HealthyNode(f) /\ Entered(f)) =>
                /\ RanLifecycle(frames[f].log)
                /\ PrepKey(frames[f].node) \in DOMAIN glob
                /\ PostKey(frames[f].node) \in DOMAIN glob

\* C9: if one branch of a ParallelFlow fails, the error reaches the caller of
\* run (run never returns normally and eventually raises), and the sibling
\* branches in flight are not cancelled: everything that was started keeps
\* running until nothing is left to run, each started step whose own callbacks
\* do not raise having then run its exec and its post and made its writes to
\* global memory, possibly after run has raised.
C9_SiblingsNotCancelled ==
    /\ [](C9_AllRan)
    /\ []((ParallelTop /\ SomeFailed) => ~Succeeded(frames[1]))
    /\ []((ParallelTop /\ SomeFailed) => <>(Running /\ frames[1].pc = "raised"))
    /\ [](Running => <>Quiescent)

\* run has raised while a sibling branch was still in its exec phase, and that
\* branch has since run its post and written to global memory
C9_Witness ==
    /\ ParallelTop
    /\ frames[1].pc = "raised"
    /\ \E f \in DOMAIN runs[Len(runs)].inflight :
          /\ runs[Len(runs)].inflight[f] = "exec"
          /\ frames[f].npost = 1
          /\ PostKey(frames[f].node) \in DOMAIN glob

\* ------------------------------------------------------------------ C10
SequentialTop == Running /\ graph[top].kind = "Flow"
\* the frames that raised an exception of their own
Origins == {g \in FrameIds : Failed(frames[g]) /\ frames[g].raised = NoneVal}

\* frame g is a step of the Flow run by frame a, or of a Flow nested in it
RECURSIVE RunsIn(_, _)
RunsIn(a, g) ==
    /\ g # 0
    /\ frames[g].flow # 0
    /\ (frames[g].flow = a \/ RunsIn(a, frames[g].flow))

\* what C10 says of every state of a Flow's run in which a step has failed
C10_Aborted ==
    (SequentialTop /\ SomeFailed) =>
        /\ Cardinality(Origins) = 1
        /\ \A g \in Origins :
              LET e == frames[g].err
              IN  /\ e.node = frames[g].node
                  /\ graph[e.node].prepFails => e = Err("PrepError", e.node, 0)
                  /\ \A f \in FrameIds : Failed(frames[f]) => frames[f].err = e
                  /\ frames[1].pc = "raised" =>
                        ~runs[Len(runs)].ok /\ runs[Len(runs)].result = e
                  \* no successor of the failing step, no later sibling branch
                  /\ \A h \in FrameIds : frames[h].parent = g => frames[h].pidx = 0
                  /\ \A h \in FrameIds : h > g => IsAncestor(g, h)
                  \* no post of a Flow the step runs in
                  /\ \A a \in FrameIds : IsAncestor(a, g) =>
                        /\ RunsIn(a, g) => frames[a].npost = 0
                        /\ frames[a].pc \in {"wait", "inner", "failed", "raised"}
                  /\ \A f \in FrameIds : Finished(frames[f]) \/ IsAncestor(f, g)

\* C10: in a Flow, an error raised by a step's prep, by its exec once retries
\* and fallback are exhausted, or by its post propagates out of Flow.run
\* unchanged, and nothing that had not started before the error runs
\* afterwards: no callback is called and no run_node is entered once a step
\* has failed - not for the failing step's successors, not for later sibling
\* branches, and not the Flow's own post.
C10_FlowAborts ==
    /\ [](C10_Aborted)
    /\ [][(SequentialTop /\ SomeFailed) =>
            \A f \in 1..Len(frames') :
                /\ f <= Len(frames)
                /\ frames'[f].log = frames[f].log]_vars

\* a Flow's run has raised the post error of its first branch, whose sibling
\* branch was never started
C10_Witness ==
    /\ SequentialTop
    /\ frames[1].pc = "raised"
    /\ runs[Len(runs)].result.type = "PostError"
    /\ \E g \in Origins :
          /\ frames[g].pidx = 1
          /\ Len(frames[frames[g].parent].work) = 2
          /\ Len(frames[frames[g].parent].kids) = 1

\* ------------------------------------------------------------------ C11
\* C11: trigger fails with the lock violation and leaves the node's trigger
\* list unchanged whenever it is called while the node is not executing its
\* post - before any run, during prep or exec, after a run has returned or has
\* failed in any phase (equivalently: the lock is false only while post is in
\* progress).
C11_TriggerOutsidePostFails ==
    (last # NoneVal /\ last.op = "trigger") => (last.raised /\ ~last.appended)

\* ------------------------------------------------------------------ C12
\* the post of the step's node calls trigger zero times
NoTrigger(f) == graph[frames[f].node].trig = <<>>
\* the visit yields the single pair (default action, clone of the step's memory
\* with no forking data), and the Flow runs the default-action successors on it
DefaultOnly(f) ==
    LET fr == frames[f]
        next == RegisteredFor(fr.node, DEFAULT_ACTION)
    IN  /\ fr.pairs = << [action |-> DEFAULT_ACTION, local |-> fr.local] >>
        /\ fr.pc \in {"wait", "done"} =>
              fr.work = [k \in 1..Len(next) |-> [pidx |-> 1, node |-> next[k]]]
        /\ \A g \in FrameIds :
              frames[g].parent = f /\ frames[g].pidx # 0 =>
                  frames[g].pidx = 1 /\ frames[g].local = fr.local
        /\ fr.pc = "done" => ChildNodes(f, 1) = next

\* C12 as stated: a step whose post calls trigger zero times yields exactly one
\* pair (default action, clone of its memory with no forking data), and the
\* Flow runs its default-action successors as for one trigger(default).
C12_NoTriggerYieldsDefault ==
    \A f \in Visited : (Posted(frames[f]) /\ NoTrigger(f)) => DefaultOnly(f)

\* C12, amended: a step whose trigger list is empty when post has returned -
\* a plain step whose post called trigger zero times, or a Flow whose post
\* called trigger zero times and whose sub-steps left it no terminal trigger -
\* yields exactly the pair (default action, clone of its memory with no forking
\* data), and the Flow visiting it runs its default-action successors exactly
\* as for a step whose post called trigger(default) once with no data.
C12_ImplicitDefault ==
    \A f \in Visited :
        LET fr == frames[f]
        IN  /\ (Posted(fr) /\ NoTrigger(f) /\ ~IsFlow(fr.node)) => fr.triggers = <<>>
            /\ (Posted(fr) /\ fr.triggers \in {<<>>, << Trig(DEFAULT_ACTION, Empty) >>}) =>
                  DefaultOnly(f)

\* a step reached with forking data ended without a trigger, and the Flow has
\* run its default-action successor on a clone of its memory
C12_Witness ==
    \E f \in Visited : \E g \in FrameIds :
        /\ NoTrigger(f) /\ frames[f].triggers = <<>>
        /\ frames[f].local # Empty
        /\ frames[f].pc = "done"
        /\ frames[g].parent = f /\ frames[g].pidx = 1
        /\ frames[g].node \in Range(RegisteredFor(frames[f].node, DEFAULT_ACTION))
        /\ frames[g].npost = 1

\* ------------------------------------------------------------------ C13
\* run_node has gone through the pairs of the visit
Dispatched(fr) == fr.pc \in {"wait", "done"} \/ (Failed(fr) /\ fr.pairs # <<>>)
\* the frame's post has returned
PostReturned(fr) == fr.pairs # <<>> \/ fr.pc \in {"done", "returned"}
Count(q, t) == Cardinality({i \in DOMAIN q : q[i] = t})
\* the (step, pair) couples of Flow frame F in which the step emitted an
\* explicit trigger whose action has no successor on that step
Surfaced(F) ==
    UNION { { <<f, i>> : i \in {j \in 1..Len(frames[f].pairs) :
                                  /\ Len(frames[f].triggers) > 0
                                  /\ RegisteredFor(frames[f].node, frames[f].pairs[j].action) = <<>>} }
            : f \in {g \in FrameIds : frames[g].flow = F /\ Dispatched(frames[g])} }
SurfacedTrigger(c) == Trig(frames[c[1]].pairs[c[2]].action, frames[c[1]].pairs[c[2]].local)

\* C13: the pending triggers of a Flow are, besides those of its own post, one
\* (action, local store of the derived memory) per explicit trigger of a
\* visited step whose action has no successor on that step, and nothing for a
\* step that ended on the implicit default; the Flow, nested as a step or run
\* with propagate, yields them as its pairs - its successors for such an action
\* start with that data in their local store - and yields its own implicit
\* default when there is none.
C13_TerminalTriggers ==
    \A F \in FrameIds :
        LET fr == frames[F]
            own == IF PostReturned(fr) THEN graph[fr.node].trig ELSE <<>>
            all == Range(fr.triggers) \cup {SurfacedTrigger(c) : c \in Surfaced(F)} \cup Range(own)
        IN  IsFlow(fr.node) =>
              /\ \A t \in all :
                    Count(fr.triggers, t) =
                        Cardinality({c \in Surfaced(F) : SurfacedTrigger(c) = t}) + Count(own, t)
              /\ (PostReturned(fr) /\ fr.propagate) =>
                    IF Surfaced(F) = {} /\ own = <<>>
                    THEN fr.pairs = << [action |-> DEFAULT_ACTION, local |-> fr.local] >>
                    ELSE /\ Len(fr.pairs) = Len(fr.triggers)
                         /\ \A i \in 1..Len(fr.pairs) :
                               /\ fr.pairs[i].action = fr.triggers[i].action
                               /\ fr.pairs[i].local = Merge(fr.local, fr.triggers[i].forking_data)
              /\ \A g \in FrameIds :
                    (frames[g].parent = F /\ frames[g].pidx # 0) =>
                        /\ frames[g].node \in Range(RegisteredFor(fr.node, fr.pairs[frames[g].pidx].action))
                        /\ frames[g].local = fr.pairs[frames[g].pidx].local

\* a nested Flow whose inner step triggered "out" with data, with no successor
\* inside it, has run its own successor for "out" with that data
C13_Witness ==
    \E F \in FrameIds : \E g \in FrameIds :
        /\ F # 1 /\ IsFlow(frames[F].node)
        /\ Surfaced(F) # {}
        /\ frames[g].parent = F /\ frames[g].pidx = 1
        /\ frames[F].pairs[1].action = "out"
        /\ frames[g].local = [id |-> "n"]
        /\ frames[g].npost = 1

\* ------------------------------------------------------------------ C14
\* the actions of the pairs the visit yielded (the implicit default included)
ActionsOf(fr) == {fr.pairs[i].action : i \in 1..Len(fr.pairs)}
\* the records of the successors run for the last pair of frame f with action a
RecordsFor(f, a) ==
    LET fr == frames[f]
        i == CHOOSE j \in 1..Len(fr.pairs) :
                /\ fr.pairs[j].action = a
                /\ \A k \in 1..Len(fr.pairs) : fr.pairs[k].action = a => k <= j
        ids == SortedSeq({g \in FrameIds : frames[g].parent = f /\ frames[g].pidx = i})
    IN  [k \in 1..Len(ids) |-> frames[ids[k]].tree]
\* the record Flow.run returned to the caller is that of the start step
ReturnsStartRecord ==
    (Running /\ IsFlow(top) /\ frames[1].pc = "returned" /\ ~frames[1].propagate) =>
        runs[Len(runs)].result = frames[frames[1].inner].tree

\* C14 as stated: the record of every visited step maps each action the step
\* triggered, the implicit default included, to the records of the successors
\* run for it, an action with no resolved successors to an empty list.
C14_EveryActionRecorded ==
    /\ ReturnsStartRecord
    /\ \A f \in Visited :
          frames[f].pc = "done" =>
              LET tr == frames[f].tree.triggered
              IN  /\ tr # NoneVal
                  /\ DOMAIN tr = ActionsOf(frames[f])
                  /\ \A a \in ActionsOf(frames[f]) : tr[a] = RecordsFor(f, a)

\* C14, amended: Flow.run returns the record of its start step, and the record
\* of every visited step maps each action the step triggered for which
\* successors were run to the list of their records (those run for the last
\* trigger of that action), and each explicitly triggered action with no
\* successors to an empty list; the implicit default of a step with no
\* default-action successors is not recorded, and a step with nothing recorded
\* has triggered = None.
C14_RecordedActions ==
    /\ ReturnsStartRecord
    /\ \A f \in Visited :
          frames[f].pc = "done" =>
              LET fr == frames[f]
                  tr == fr.tree.triggered
                  recorded == {a \in ActionsOf(fr) :
                                  Len(fr.triggers) > 0 \/ RegisteredFor(fr.node, a) # <<>>}
              IN  /\ fr.tree.order = fr.node
                  /\ fr.tree.type = graph[fr.node].kind
                  /\ IF recorded = {} THEN tr = NoneVal
                     ELSE /\ DOMAIN tr = recorded
                          /\ \A a \in recorded : tr[a] = RecordsFor(f, a)

\* Flow.run has returned a record whose start step maps one action to the
\* records of its two successors and another to the record of one
C14_Witness ==
    /\ Running /\ IsFlow(top) /\ frames[1].pc = "returned" /\ ~frames[1].propagate
    /\ LET tr == runs[Len(runs)].result.triggered
       IN  /\ tr # NoneVal
           /\ DOMAIN tr = {"x", "y"}
           /\ Len(tr["x"]) = 2 /\ Len(tr["y"]) = 1
           /\ tr["x"][2].triggered = NoneVal

\* ------------------------------------------------------------------ C15
\* C15: in the execution record, a step that emitted no explicit trigger and
\* has no successor for the default action has triggered = None, whereas a
\* step that explicitly triggered an action with no successors has that action
\* mapped to an empty list.
C15_NoneOrEmptyList ==
    \A f \in Visited :
        LET fr == frames[f]
        IN  fr.pc = "done" =>
              /\ (fr.triggers = <<>> /\ RegisteredFor(fr.node, DEFAULT_ACTION) = <<>>) =>
                    fr.tree.triggered = NoneVal
              /\ \A i \in 1..Len(fr.triggers) :
                    RegisteredFor(fr.node, fr.triggers[i].action) = <<>> =>
                        /\ fr.tree.triggered # NoneVal
                        /\ fr.triggers[i].action \in DOMAIN fr.tree.triggered
                        /\ fr.tree.triggered[fr.triggers[i].action] = <<>>

\* one visited step has returned the record of a silent terminal step and
\* another that of a step whose explicit trigger has no successor
C15_Witness ==
    \E f \in Visited : \E g \in Visited :
        /\ frames[f].pc = "done" /\ frames[g].pc = "done"
        /\ frames[f].triggers = <<>> /\ frames[f].tree.triggered = NoneVal
        /\ Len(frames[g].triggers) = 1
        /\ frames[g].tree.triggered = (frames[g].triggers[1].action :> <<>>)

\* ------------------------------------------------------------------ C16
\* the forking data of the trigger frame g was run for (none for the start
\* step of a Flow, or under the implicit default)
ForkingData(g) ==
    LET p == frames[frames[g].parent]
    IN  IF frames[g].pidx = 0 \/ p.triggers = <<>> THEN Empty
        ELSE p.triggers[frames[g].pidx].forking_data

\* what C16 says of every state
C16_Isolated ==
    /\ \A g \in FrameIds :
          LET fr == frames[g]
          IN  \* the caller's Memory; the clone a step is run with
              /\ fr.parent = 0 => fr.local = CallerLocal(fr.given)
              /\ fr.parent # 0 => fr.local = Merge(frames[fr.parent].local, ForkingData(g))
              \* the data shadows global keys of the same name
              /\ (fr.parent # 0 /\ fr.pc # "enter") =>
                    \A k \in DOMAIN ForkingData(g) :
                        MemGet(Mem(g), k, "KeyError") = [ok |-> TRUE, value |-> ForkingData(g)[k]]
    \* no other branch of the same step sees it
    /\ \A a \in FrameIds : \A b \in FrameIds :
          (Siblings(a, b) /\ frames[a].pidx # frames[b].pidx) =>
              \A k \in (DOMAIN ForkingData(a)) \ (DOMAIN ForkingData(b)) :
                  \/ k \notin DOMAIN frames[b].local
                  \/ /\ k \in DOMAIN frames[frames[b].parent].local
                     /\ frames[b].local[k] = frames[frames[b].parent].local[k]
    \* the global mapping holds what the steps wrote, nothing else
    /\ \A k \in DOMAIN glob : glob[k] = TRUE
    /\ DOMAIN glob \subseteq {PrepKey(n) : n \in DOMAIN graph} \cup {PostKey(n) : n \in DOMAIN graph}

\* C16: forking data passed to a trigger is visible, through the local store
\* and shadowing global keys of the same name, only to the successors run for
\* that trigger and to their descendants: the local store of every step is that
\* of the step it follows plus the forking data of its own trigger, the local
\* store of a step (the triggering step's included) and of the caller's Memory
\* never changes, and the data never appears in a sibling branch or in the
\* global mapping.
C16_ForkingDataIsLocal ==
    /\ [](C16_Isolated)
    /\ [][\A f \in FrameIds : f <= Len(frames') => frames'[f].local = frames[f].local]_vars

\* a successor run for trigger x reads the forking data under a key that global
\* memory holds too, while the branch of trigger y reads the global value
C16_Witness ==
    \E a \in FrameIds : \E b \in FrameIds :
        /\ Siblings(a, b)
        /\ ForkingData(a) = [prep_1 |-> FALSE]
        /\ frames[a].pc = "done" /\ frames[b].pc = "done"
        /\ MemGet(Mem(a), "prep_1", "KeyError") = [ok |-> TRUE, value |-> FALSE]
        /\ MemGet(Mem(b), "prep_1", "KeyError") = [ok |-> TRUE, value |-> TRUE]
        /\ \E d \in FrameIds : frames[d].parent = a /\ frames[d].pidx # 0
                                /\ frames[d].local = [prep_1 |-> FALSE] /\ frames[d].npost = 1

\* ------------------------------------------------------------------ C17
\* the keys the frame's prep and post have written so far
Written(f) ==
    LET fr == frames[f]
        n == fr.node
    IN  (IF fr.nprep = 1 /\ ~graph[n].prepFails THEN {PrepKey(n)} ELSE {})
        \cup (IF fr.npost = 1 /\ fr.pc # "posting" /\ ~graph[n].postFails THEN {PostKey(n)} ELSE {})
\* the step reads key k as written, unless its own local store shadows k
Reads(g, k) ==
    \/ k \in DOMAIN frames[g].local
    \/ MemGet(Mem(g), k, "KeyError") = [ok |-> TRUE, value |-> TRUE]

\* what C17 says of every state
C17_Visible ==
    \* every write made so far is in the one global mapping, where every step
    \* of every branch reads it
    /\ \A f \in FrameIds : \A k \in Written(f) :
          /\ k \in DOMAIN glob /\ glob[k] = TRUE
          /\ \A g \in FrameIds : Reads(g, k)
    \* a step starts after the prep and post of the step it follows (after
    \* the prep of the Flow it is the start step of)
    /\ \A g \in FrameIds :
          LET p == frames[g].parent
          IN  p # 0 =>
                /\ PrepKey(frames[p].node) \in Written(p)
                /\ frames[g].pidx # 0 => PostKey(frames[p].node) \in Written(p)
    \* the caller's mapping after run has returned, given as such or in a Memory
    /\ (Running /\ frames[1].pc = "returned") =>
          /\ \A f \in FrameIds : Written(f) \subseteq DOMAIN runs[Len(runs)].global
          /\ PrepKey(top) \in DOMAIN runs[Len(runs)].global
          /\ PostKey(top) \in DOMAIN runs[Len(runs)].global

\* C17: a write to global memory made by a step in prep or post is visible to
\* every step that starts afterwards in any branch (read through its Memory
\* unless its own local store shadows the key), in particular to each of its
\* successors, and to the caller after run returns, whether run was given a
\* Memory or a raw global mapping: the write is never undone during the run.
C17_GlobalWritesVisible ==
    /\ [](C17_Visible)
    /\ [][frames' # <<>> =>
            \A k \in DOMAIN glob : k \in DOMAIN glob' /\ glob'[k] = glob[k]]_vars

\* run, given a raw mapping, has returned, and the mapping holds what the
\* start step and the last step of a two-step branch wrote
C17_Witness ==
    /\ Running /\ frames[1].pc = "returned" /\ frames[1].given = "dict"
    /\ \E g \in FrameIds :
          /\ frames[g].parent # 0 /\ frames[frames[g].parent].pidx # 0
          /\ PostKey(frames[g].node) \in DOMAIN runs[Len(runs)].global
          /\ PrepKey(graph[top].start) \in DOMAIN runs[Len(runs)].global

\* ------------------------------------------------------------------ C18
Did(op) == last # NoneVal /\ last.op = op
\* the stores hold under every key but k what they held before the operation
OthersKept(k) ==
    /\ (DOMAIN mem.global) \ {k} = (DOMAIN last.before.global) \ {k}
    /\ (DOMAIN mem.local) \ {k} = (DOMAIN last.before.local) \ {k}
    /\ \A j \in (DOMAIN mem.global) \ {k} : mem.global[j] = last.before.global[j]
    /\ \A j \in (DOMAIN mem.local) \ {k} : mem.local[j] = last.before.local[j]
\* after set(k, v): global[k] = v, k is absent from local, get(k) = v
WrittenThrough(k, v) ==
    /\ k \in DOMAIN mem.global /\ mem.global[k] = v
    /\ k \notin DOMAIN mem.local
    /\ MemGetItem(mem, k) = [ok |-> TRUE, value |-> v]

\* C18 as stated: after set(k, v) through the primary write path, global[k] = v,
\* k is absent from local and get(k) = v, for every key.
C18_SetEveryKey ==
    Did("set") => WrittenThrough(last.key, last.value)

\* C18, amended: for every key other than the reserved names (global, local,
\* _global, _local, clone, create), after set(k, v) through the primary write
\* path global[k] = v, k is absent from local and get(k) = v, whether k was
\* absent, only in global, only in local or shadowed in both, and no other key
\* changes; for a reserved name set fails with the assertion error and changes
\* neither store.
C18_SetWritesGlobal ==
    Did("set") =>
        IF last.key \in {"global", "local", "_global", "_local", "clone", "create"}
        THEN last.res = [ok |-> FALSE, error |-> "AssertionError"] /\ mem = last.before
        ELSE /\ last.res = [ok |-> TRUE]
             /\ WrittenThrough(last.key, last.value)
             /\ MemGetAttr(mem, last.key) = [ok |-> TRUE, value |-> last.value]
             /\ OthersKept(last.key)

\* a key shadowed in both stores has been set to a value neither store held
C18_Witness ==
    /\ Did("set") /\ last.key = "a"
    /\ "a" \in DOMAIN last.before.global /\ "a" \in DOMAIN last.before.local
    /\ last.before.global["a"] = "v1" /\ last.before.local["a"] = "v1"
    /\ last.value = "v2"
    /\ "b" \in DOMAIN mem.local

\* ------------------------------------------------------------------ C19
\* the result the claim gives get(k) on Memory m, with the access's error
Shadowed(m, k, res, Error) ==
    /\ k \in DOMAIN m.local => res = [ok |-> TRUE, value |-> m.local[k]]
    /\ (k \notin DOMAIN m.local /\ k \in DOMAIN m.global) =>
          res = [ok |-> TRUE, value |-> m.global[k]]
    /\ (k \notin DOMAIN m.local /\ k \notin DOMAIN m.global) =>
          res = [ok |-> FALSE, error |-> Error]

\* C19 as stated: get(k) returns local[k] when k is in local, otherwise
\* global[k] when k is in global, and otherwise fails with the not-found error
\* (AttributeError for attribute access, KeyError for item access) without
\* changing either store; contains(k) is true exactly when get(k) succeeds.
C19_GetEveryKey ==
    /\ Did("getitem") => Shadowed(last.before, last.key, last.res, "KeyError") /\ mem = last.before
    /\ Did("getattr") => Shadowed(last.before, last.key, last.res, "AttributeError") /\ mem = last.before
    /\ Did("contains") =>
          /\ last.res.value = MemGetItem(mem, last.key).ok
          /\ last.res.value = MemGetAttr(mem, last.key).ok
          /\ mem = last.before

\* C19, amended: item access get(k) returns local[k] when k is in local,
\* otherwise global[k] when k is in global, and otherwise fails with KeyError;
\* attribute access does the same, failing with AttributeError, for every key
\* that is not the name of an attribute of the Memory object (local, clone,
\* _global, _local, ...), for which it returns that attribute whatever the
\* stores hold; neither changes either store; contains(k) is true exactly when
\* item access succeeds.
C19_GetShadowing ==
    /\ Did("getitem") => Shadowed(last.before, last.key, last.res, "KeyError") /\ mem = last.before
    /\ Did("getattr") =>
          /\ mem = last.before
          /\ IF last.key \in {"local", "clone", "_global", "_local", "_set_value"}
             THEN last.res.ok /\ last.res.value \notin MemValues
             ELSE Shadowed(last.before, last.key, last.res, "AttributeError")
    /\ Did("contains") =>
          /\ last.res.value = MemGetItem(mem, last.key).ok
          /\ mem = last.before

\* item access has returned the local value of a key whose global value differs
C19_Witness ==
    /\ Did("getitem") /\ last.key = "a"
    /\ "a" \in DOMAIN mem.global /\ "a" \in DOMAIN mem.local
    /\ mem.global["a"] = "v1" /\ mem.local["a"] = "v2"
    /\ last.res = [ok |-> TRUE, value |-> "v2"]

\* ------------------------------------------------------------------ C20
\* C20: delete(k) removes k from both global and local when it is present in
\* either, so that contains(k) is false afterwards and a shadowed global value
\* does not reappear (nothing else changes), and fails with KeyError leaving
\* both stores unchanged when k is in neither.
C20_DeleteBoth ==
    Did("delete") =>
        IF last.key \in DOMAIN last.before.global \/ last.key \in DOMAIN last.before.local
        THEN /\ last.res = [ok |-> TRUE]
             /\ last.key \notin DOMAIN mem.global /\ last.key \notin DOMAIN mem.local
             /\ ~MemContains(mem, last.key)
             /\ MemGetItem(mem, last.key) = [ok |-> FALSE, error |-> "KeyError"]
             /\ OthersKept(last.key)
        ELSE /\ last.res = [ok |-> FALSE, error |-> "KeyError"]
             /\ mem = last.before

\* a key held by both stores has been deleted
C20_Witness ==
    /\ Did("delete") /\ last.key = "a" /\ last.res.ok
    /\ "a" \in DOMAIN last.before.global /\ "a" \in DOMAIN last.before.local
    /\ "b" \in DOMAIN mem.global

\* ------------------------------------------------------------------ C21
\* the local store holds under every key but k what it held before the operation
LocalOthersKept(k) ==
    /\ (DOMAIN mem.local) \ {k} = (DOMAIN last.before.local) \ {k}
    /\ \A j \in (DOMAIN mem.local) \ {k} : mem.local[j] = last.before.local[j]

\* C21: reads, writes and deletes made through memory.local affect only the
\* local store (global is left unchanged by each of them); a local write of k
\* makes get(k) return the local value while global[k] keeps its value;
\* deleting a shadowing local key makes get(k) return the global value again;
\* deleting through the accessor a key absent from local fails with KeyError
\* even when the key exists in global (and then changes nothing).
C21_LocalOnly ==
    /\ (Did("local_get") \/ Did("local_contains") \/ Did("local_set") \/ Did("local_delete"))
          => mem.global = last.before.global
    /\ Did("local_get") =>
          /\ mem = last.before
          /\ last.key \in DOMAIN mem.local => last.res = [ok |-> TRUE, value |-> mem.local[last.key]]
          /\ last.key \notin DOMAIN mem.local => last.res = [ok |-> FALSE, error |-> "KeyError"]
    /\ Did("local_contains") =>
          /\ mem = last.before
          /\ last.res.value = (last.key \in DOMAIN mem.local)
    /\ Did("local_set") =>
          /\ last.res.ok
          /\ last.key \in DOMAIN mem.local /\ mem.local[last.key] = last.value
          /\ MemGetItem(mem, last.key) = [ok |-> TRUE, value |-> last.value]
          /\ LocalOthersKept(last.key)
    /\ Did("local_delete") =>
          IF last.key \in DOMAIN last.before.local
          THEN /\ last.res = [ok |-> TRUE]
               /\ last.key \notin DOMAIN mem.local
               /\ LocalOthersKept(last.key)
               /\ MemGetItem(mem, last.key) =
                      IF last.key \in DOMAIN last.before.global
                      THEN [ok |-> TRUE, value |-> last.before.global[last.key]]
                      ELSE [ok |-> FALSE, error |-> "KeyError"]
          ELSE /\ last.res = [ok |-> FALSE, error |-> "KeyError"]
               /\ mem = last.before

\* a local key shadowing a different global value has been deleted through the
\* accessor, and the global value is read again
C21_Witness ==
    /\ Did("local_delete") /\ last.key = "a" /\ last.res.ok
    /\ last.before.local["a"] = "v2"
    /\ "a" \in DOMAIN mem.global /\ mem.global["a"] = "v1"
    /\ MemGetItem(mem, "a") = [ok |-> TRUE, value |-> "v1"]

\* ------------------------------------------------------------------ C22
RECURSIVE DeepVal(_, _)
\* the value of the mapping object id, nested values included
DeepVal(h, id) ==
    [k \in DOMAIN h[id] |-> IF IsRef(h[id][k]) THEN DeepVal(h, h[id][k].ref) ELSE h[id][k]]
Existing == 1..Len(last.before)

C22_AtClone ==
    Did("clone") =>
        /\ last.clone.global = mem.global
        /\ DeepVal(heap, last.clone.local) =
              Merge(DeepVal(last.before, mem.local),
                    IF last.f = 0 THEN Empty ELSE DeepVal(last.before, last.f))
        /\ \A o \in Existing : heap[o] = last.before[o]
        /\ Reach(heap, {last.clone.local}) \cap Existing = {}
C22_Isolated ==
    Did("mutate") =>
        /\ last.side = "m" => DeepVal(heap, last.clone.local) = DeepVal(last.before, last.clone.local)
        /\ last.side = "c" =>
              /\ DeepVal(heap, mem.local) = DeepVal(last.before, mem.local)
              /\ DeepVal(heap, 3) = DeepVal(last.before, 3)
        /\ last.side = "f" => DeepVal(heap, last.clone.local) = DeepVal(last.before, last.clone.local)
C22_SharedGlobal ==
    Did("write") =>
        /\ last.clone.global = mem.global
        /\ heap[mem.global][last.key] = Atom("v3")
        /\ heap[last.clone.global][last.key] = Atom("v3")

RECURSIVE ReachNodes(_, _)
\* the nodes reachable from the nodes S along successor edges
ReachNodes(g, S) ==
    LET Targets(n) == UNION { {g[n].successors[a][i] : i \in 1..Len(g[n].successors[a])} :
                                a \in DOMAIN g[n].successors }
        T == S \cup UNION { Targets(n) : n \in S }
    IN  IF T = S THEN S ELSE ReachNodes(g, T)

\* C23: clone on a node of any finite successor graph, cycles and self-loops
\* included, terminates and returns a graph isomorphic to the reachable
\* original: each reachable original node has exactly one clone (a new
\* object), every successor edge of a clone, back-edges included, points to
\* the clone of the original edge's target and never to an original node, and
\* the original graph is left unchanged.
C23_CloneIsomorphic ==
    Did("node_clone") =>
        LET G == last.before
            R == ReachNodes(G, {last.start})
            to == last.seen
            Originals == 1..Len(G)
        IN  /\ DOMAIN to = R
            /\ to[last.start] = last.id
            /\ \A n \in R : to[n] \in (DOMAIN graph) \ Originals
            /\ \A n, k \in R : to[n] = to[k] => n = k
            /\ Len(graph) = Len(G) + Cardinality(R)
            /\ \A n \in R :
                  /\ DOMAIN graph[to[n]].successors = DOMAIN G[n].successors
                  /\ \A a \in DOMAIN G[n].successors :
                        /\ graph[to[n]].successors[a] =
                              [i \in 1..Len(G[n].successors[a]) |-> to[G[n].successors[a][i]]]
                        /\ \A i \in 1..Len(graph[to[n]].successors[a]) :
                              graph[to[n]].successors[a][i] \notin Originals
                  /\ [graph[to[n]] EXCEPT !.successors = Empty] = [G[n] EXCEPT !.successors = Empty]
            /\ \A n \in Originals : graph[n] = G[n]

\* a graph with a self-loop, a cycle through three nodes and a node reached
\* along two paths has been cloned
C23_Witness ==
    /\ Did("node_clone") /\ last.start = 1
    /\ last.before[1].successors = ("default" :> <<2, 3>>)
    /\ last.before[2].successors = ("default" :> <<3>>) @@ ("x" :> <<1>>)
    /\ last.before[3].successors = ("default" :> <<3>>) @@ ("x" :> <<1>>)
    /\ Len(graph) = 2 * Len(last.before)

\* ------------------------------------------------------------------ C24
\* the wired step objects: every node object but the Flow the caller runs
Steps == (DOMAIN graph) \ {top}
Constructed == [triggers |-> <<>>, locked |-> TRUE, cur_retry |-> 0]
\* the trigger list, lock and retry index of every wired step are as they were
\* before the run
C24_WiredUnchanged ==
    (IsFlow(top) /\ Running) => \A n \in Steps : ObjectState(n) = Constructed
\* a visit starts from the attributes of the wired object, not from what an
\* earlier visit of the same step left
C24_FreshVisit ==
    IsFlow(top) =>
        \A f \in Visited :
            (frames[f].pc = "enter" \/ (frames[f].log = <<>> /\ Failed(frames[f]))) =>
                /\ frames[f].triggers = <<>>
                /\ frames[f].locked
                /\ frames[f].cur_retry = 0
\* no step of a run changes the successor mapping or the retry configuration
\* (or anything else wired) of a step
C24_WiringKept == \A n \in Steps : graph'[n] = graph[n]

OwnVisits == {f \in Subtree(frames[1].inner) : frames[f].flow = 1}
CountedFor(n) == IF n \in DOMAIN frames[1].visit_counts THEN frames[1].visit_counts[n] ELSE 0

LastAttemptError(n) ==
    Err("ExecError", n, IF graph[n].sameError THEN 1 ELSE graph[n].max_retries)

\* C26: with the default exec_fallback, a Node whose exec fails on all
\* max_retries attempts makes run fail with the very error raised by the last
\* attempt, and post is never run for that invocation; an error raised by a
\* user-supplied exec_fallback propagates out of run in the same way.
C26_FallbackErrorPropagates ==
    \A f \in ExhaustedFrames :
        LET fr == frames[f]
            n == fr.node
            e == IF graph[n].fallback = "raise" THEN LastAttemptError(n)
                 ELSE Err("FallbackError", n, 0)
        IN  graph[n].fallback \in {"raise", "error"} =>
              /\ fr.npost = 0 /\ fr.pc \notin {"post", "posting"} /\ ~Succeeded(fr)
              /\ fr.nfallback = 1 =>
                    /\ Failed(fr)
                    /\ fr.error = LastAttemptError(n)
                    /\ fr.err = e
              /\ (f = 1 /\ fr.pc = "raised") =>
                    /\ ~runs[Len(runs)].ok
                    /\ runs[Len(runs)].result = e

\* a standalone node with max_retries = 3 and the default fallback has raised
\* to the caller the error of its third attempt
C26_Witness ==
    /\ IsStandalone /\ Running
    /\ 1 \in ExhaustedFrames
    /\ graph[top].max_retries = 3 /\ graph[top].fallback = "raise" /\ ~graph[top].sameError
    /\ frames[1].pc = "raised"
    /\ runs[Len(runs)].result = Err("ExecError", top, 3)
    /\ frames[1].log = <<"prep", "exec", "exec", "exec", "exec_fallback">>

\* ------------------------------------------------------------------ C27
\* C27: the error handed to exec_fallback after the final failed attempt
\* carries retry_count equal to the number of attempts made, i.e. max_retries,
\* for every max_retries >= 1 and whatever error object exec raises on each
\* attempt.
C27_RetryCountIsAttempts ==
    \A f \in NodeFrames :
        (graph[frames[f].node].max_retries >= 1 /\ frames[f].nfallback = 1) =>
            frames[f].error.retry_count = graph[frames[f].node].max_retries

\* ------------------------------------------------------------------ C28
\* C28: an error raised by prep or by post propagates out of run immediately:
\* prep and post are each invoked at most once per run whatever the number of
\* exec attempts, exec is never invoked after a prep error, and no retry or
\* fallback is attempted for a prep or post error.
C28_PrepPostErrors ==
    \A f \in NodeFrames :
        LET fr == frames[f]
            n == fr.node
            nd == graph[n]
        IN  /\ fr.nprep <= 1 /\ fr.npost <= 1
            /\ nd.prepFails =>
                  /\ fr.nexec = 0 /\ fr.nfallback = 0 /\ fr.npost = 0
                  /\ fr.pc \notin {"exec", "fallback", "post", "posting"}
                  /\ fr.nprep = 1 =>
                        /\ Failed(fr) /\ fr.err = Err("PrepError", n, 0)
                        /\ fr.log = <<"prep">>
                        /\ (f = 1 /\ fr.pc = "raised") =>
                              runs[Len(runs)].result = Err("PrepError", n, 0)
            /\ (nd.postFails /\ fr.npost = 1) =>
                  /\ Failed(fr) /\ fr.err = Err("PostError", n, 0)
                  /\ fr.log[Len(fr.log)] = "post"
                  /\ fr.nexec = (IF nd.execFails < nd.max_retries THEN nd.execFails + 1
                                 ELSE nd.max_retries)
                  /\ fr.nfallback = (IF nd.execFails < nd.max_retries THEN 0 ELSE 1)
                  /\ (f = 1 /\ fr.pc = "raised") =>
                        runs[Len(runs)].result = Err("PostError", n, 0)

\* the post of a standalone node that needed two exec attempts has raised to
\* the caller
C28_Witness ==
    /\ IsStandalone /\ Running
    /\ graph[top].postFails /\ graph[top].max_retries = 2
    /\ frames[1].pc = "raised"
    /\ frames[1].log = <<"prep", "exec", "exec", "post">>
    /\ runs[Len(runs)].result = Err("PostError", top, 0)

\* ------------------------------------------------------------------ C29
\* the visits of a Flow used as a step of another Flow, and the visits made
\* inside one of them
NestedFlows == {F \in Visited : IsFlow(frames[F].node)}
InnerOf(F) == {g \in FrameIds : frames[g].flow = F}
\* the (step, pair, successor) triples by which the steps visited inside F
\* reach node n
Hits(F, n) ==
    LET Targets(g, i) == RegisteredFor(frames[g].node, frames[g].pairs[i].action)
        OfPair(g, i) == { <<g, i, k>> : k \in {j \in 1..Len(Targets(g, i)) : Targets(g, i)[j] = n} }
        OfStep(g) == UNION { OfPair(g, i) : i \in 1..Len(frames[g].pairs) }
    IN  UNION { OfStep(g) : g \in InnerOf(F) }

\* C29: when a Flow is used as a step of another Flow, its prep runs before
\* any of its inner steps, all its inner steps complete before its post runs,
\* the outer successors of the nested Flow start only after its post has
\* completed, and every inner step on the taken path runs exactly once per
\* visit of the nested Flow (once for each trigger that reaches it).
C29_NestedFlowAsStep ==
    \A F \in NestedFlows :
        LET fr == frames[F]
            inner == InnerOf(F)
            outer == {g \in FrameIds : frames[g].parent = F /\ frames[g].pidx # 0}
            started == fr.pc \in {"post", "posting"} \/ fr.npost > 0
        IN  /\ inner # {} => (fr.nprep = 1 /\ fr.log[1] = "prep")
            /\ started =>
                  /\ \A g \in inner : frames[g].pc = "done"
                  /\ \A g \in inner : /\ frames[g].nprep = 1 /\ frames[g].npost = 1
                                        /\ frames[g].nexec + (IF IsFlow(frames[g].node) THEN 1 ELSE 0) >= 1
                  /\ \A n \in DOMAIN graph :
                        Cardinality({g \in inner : frames[g].node = n}) =
                            (IF n = graph[fr.node].start THEN 1 ELSE 0)
                            + Cardinality(Hits(F, n))
            /\ outer # {} =>
                  /\ fr.npost = 1 /\ Posted(fr)
                  /\ fr.log = <<"prep", "post">>
                  /\ \A g \in inner : frames[g].pc = "done"

\* a Flow of two chained steps nested in the caller's Flow has been visited
\* twice, and the outer successor of each visit has run
C29_Witness ==
    \E F, G \in NestedFlows :
        /\ F # G /\ frames[F].node = frames[G].node
        /\ frames[F].pc = "done" /\ frames[G].pc = "done"
        /\ Cardinality(InnerOf(F)) = 2 /\ Cardinality(InnerOf(G)) = 2
        /\ \E g \in FrameIds : frames[g].parent = F /\ frames[g].pidx # 0 /\ frames[g].pc = "done"

\* ------------------------------------------------------------------ C30
\* the visits of the fan-in step, those whose post has run, and those whose
\* post triggered the aggregate action
Branches == {f \in FrameIds : graph[frames[f].node].role = "fanin"}
Stored == {f \in Branches : frames[f].npost = 1}
Aggregating == {f \in Branches : \E i \in 1..Len(frames[f].triggers) :
                                     frames[f].triggers[i].action = "aggregate_stats"}
Chunks == Len(graph[graph[top].start].trig)

\* C30: in the cookbook fan-out / fan-in pattern - a step sets a global
\* counter to N (N <= max_visits) and emits N triggers, and each of the N
\* branches of a ParallelFlow stores its result, decrements the counter in
\* post and triggers the aggregate action when it reads zero - exactly one
\* branch triggers the aggregate action, and it does so only after all N
\* branches have stored their results, for every interleaving of the branches.
C30_FanIn ==
    (frames # <<>> /\ graph[graph[top].start].role = "fanout") =>
        /\ Cardinality(Aggregating) <= 1
        /\ Aggregating # {} =>
              /\ Cardinality(Stored) = Chunks
              /\ \A i \in 1..Chunks : ("result_" \o ToString(i)) \in DOMAIN glob
              /\ glob["remaining"] = 0
        /\ Cardinality(Stored) = Chunks => Cardinality(Aggregating) = 1
        /\ "remaining" \in DOMAIN glob => glob["remaining"] = Chunks - Cardinality(Stored)
        /\ Cardinality({f \in FrameIds : graph[frames[f].node].role = "plain"
                                          /\ frames[f].parent \in Branches}) <= 1
        /\ frames[1].pc \in {"done", "returned"} =>
              \E f \in FrameIds : frames[f].parent \in Aggregating /\ frames[f].pc = "done"

\* three branches have run, their posts in an order other than that of their
\* triggers, and the aggregate step has run once
C30_Witness ==
    /\ frames # <<>> /\ graph[graph[top].start].role = "fanout" /\ Chunks = 3
    /\ frames[1].pc = "returned"
    /\ \E f \in Aggregating : frames[f].local["index"] = 1
    /\ Cardinality(Stored) = 3

\* ------------------------------------------------------------------ C31
\* the nodes registered on node n for action a so far, in registration order
Registered(n, a) ==
    LET s == SelectSeq(runs, LAMBDA r : r.self = n /\ r.action = a)
    IN  [i \in 1..Len(s) |-> s[i].node]

\* C31: on(action, node) and next(node, action) append node to the successor
\* list of that action and return node; after any sequence of registrations
\* get_next_nodes(action) returns exactly the nodes registered for that action,
\* in registration order (several nodes may share an action, a node may be
\* registered under several actions), and an empty list for an action never
\* registered.
C31_Wiring ==
    /\ \A n \in DOMAIN graph, a \in WiringActions :
          /\ GetNextNodes(n, a) = Registered(n, a)
          /\ (\A i \in DOMAIN runs : ~(runs[i].self = n /\ runs[i].action = a)) =>
                GetNextNodes(n, a) = <<>>
    /\ (Did("on") \/ Did("next")) =>
          /\ last.res = runs[Len(runs)].node
          /\ LET l == GetNextNodes(last.self, last.action) IN l[Len(l)] = last.res
    /\ Did("get_next_nodes") => last.res = Registered(last.self, last.action)

\* two different nodes were registered for one action of node 1, one of them
\* also under a second action, a third action was never registered, and
\* get_next_nodes has just returned the two nodes in registration order
C31_Witness ==
    /\ Did("get_next_nodes") /\ last.self = 1 /\ last.action = "x"
    /\ last.res = <<2, 1>>
    /\ GetNextNodes(1, DEFAULT_ACTION) = <<2>>
    /\ GetNextNodes(1, "y") = <<>>

\* ------------------------------------------------------------------ C32
\* the Flow invocations whose exec_runner has started
FlowRuns == {F \in FrameIds : IsFlow(frames[F].node) /\ frames[F].inner # 0}
VisitCount(F, n) == IF n \in DOMAIN frames[F].visit_counts THEN frames[F].visit_counts[n] ELSE 0
\* the visits run_node of the Flow invocation F was called for, of identity n
VisitsIn(F, n) == {f \in FrameIds : frames[f].flow = F /\ frames[f].node = n}
\* the visit passed the check of line 275
Started(f) == frames[f].pc # "enter" /\ Entered(f)
\* the visit was refused by the check of line 275
Refused(f) == frames[f].pc = "failed" /\ ~Entered(f)

\* C32: in every state of a Flow or ParallelFlow run, whatever the interleaving
\* of parallel branches, the visit count of every step identity is at most
\* max_visits and is the number of visits of that identity started so far in
\* the run, over all the clones of the step (which keep its identity); a visit
\* that would take the count above max_visits fails with the cycle-limit error
\* and its prep never starts.
C32_VisitCounts ==
    \A F \in FlowRuns :
        \A n \in DOMAIN graph :
            /\ VisitCount(F, n) <= graph[frames[F].node].max_visits
            /\ VisitCount(F, n) = Cardinality({f \in VisitsIn(F, n) : Started(f)})
            /\ \A f \in VisitsIn(F, n) :
                  /\ frames[f].nprep > 0 => Started(f)
                  /\ Refused(f) =>
                        /\ VisitCount(F, n) = graph[frames[F].node].max_visits
                        /\ frames[f].err = Err("CycleLimit", n, 0)
                        /\ frames[f].nprep = 0 /\ frames[f].log = <<>>

\* two branches of a ParallelFlow are both in the middle of a visit of the same
\* step, for which the Flow counts two visits
C32_Witness ==
    /\ ParallelTop
    /\ \E f, g \in FrameIds :
          /\ f # g /\ frames[f].node = frames[g].node
          /\ frames[f].flow = 1 /\ frames[g].flow = 1
          /\ frames[f].pc = "exec" /\ frames[g].pc = "post"
          /\ VisitCount(1, frames[f].node) = 2

\* ------------------------------------------------------------------ C33
\* the caller's await on run has ended
RunEnded == Running /\ frames[1].pc \in {"returned", "raised"}

\* C33: every run of a Flow or ParallelFlow over a finite graph whose callbacks
\* terminate and emit finitely many triggers eventually finishes, by returning
\* or by failing (for instance with the cycle-limit error), and nothing it
\* started keeps running forever: no self-loop and no mutually recursive chain
\* of successors runs forever.
C33_RunsFinish ==
    /\ [](Running => <>RunEnded)
    /\ [](Running => <>Quiescent)

\* the run of a Flow over two steps that are each other's successor has
\* failed with the cycle-limit error, each step having been visited
\* max_visits times
C33_Witness ==
    /\ RunEnded /\ Quiescent
    /\ graph[top].max_visits = 2
    /\ GetNextNodes(1, DEFAULT_ACTION) = <<2>> /\ GetNextNodes(2, DEFAULT_ACTION) = <<1>>
    /\ frames[1].err = Err("CycleLimit", 1, 0)
    /\ VisitCount(1, 1) = 2 /\ VisitCount(1, 2) = 2

\* ------------------------------------------------------------------ C34
\* the run calls on a Flow whose exec_runner has started
FlowCalls == {G \in Calls : IsFlow(top) /\ frames[G].inner # 0}
\* the visits the run call G has made in the Flow
VisitsOfCall(G, n) ==
    {f \in Subtree(frames[G].inner) : frames[f].flow = 1 /\ frames[f].node = n}

\* C34: the visit counts are per run: when two run calls on the same Flow
\* instance overlap in time, each call enforces max_visits on its own visits
\* only: a visit is refused only when the call it belongs to has made
\* max_visits visits of that step, and no call makes more than max_visits
\* visits of a step (the visits of one call are neither counted against the
\* other nor reset by it).
C34_PerRunCounts ==
    \A G \in FlowCalls, n \in DOMAIN graph :
        LET own == Cardinality({f \in VisitsOfCall(G, n) : Started(f)})
        IN  /\ own <= graph[top].max_visits
            /\ \A f \in VisitsOfCall(G, n) : Refused(f) => own = graph[top].max_visits

\* ------------------------------------------------------------------ C35
\* the visits of step n started in this run by run_node of the Flow object N,
\* over all the clones of N the run has made
VisitsWithin(N, n) ==
    {f \in FrameIds : /\ frames[f].flow # 0
                      /\ frames[frames[f].flow].node = N
                      /\ frames[f].node = n
                      /\ Started(f)}

\* C35: within one top-level run, no step identity is visited more than the
\* max_visits of the Flow that contains it, a step of a nested Flow that the
\* outer Flow enters several times (through a loop or a fan-out) included.
C35_PerRunCap ==
    \A N \in DOMAIN graph :
        IsFlow(N) => \A n \in DOMAIN graph :
                        Cardinality(VisitsWithin(N, n)) <= graph[N].max_visits

\* ------------------------------------------------------------------ C36
Min(a, b) == IF a <= b THEN a ELSE b

\* the (visit, pair, successor) triples of the caller's Flow that resolve to
\* step t: one for every trigger of a finished visit and every successor
\* registered for its action that is t
Resolved(t) ==
    LET done == {f \in FrameIds : frames[f].flow = 1 /\ frames[f].pc = "done"}
        Next_(f, i) == GetNextNodes(frames[f].node, frames[f].pairs[i].action)
    IN  UNION { UNION { { <<f, i, j>> : j \in {x \in 1..Len(Next_(f, i)) : Next_(f, i)[x] = t} }
                        : i \in 1..Len(frames[f].pairs) }
                : f \in done }

\* C36: visits are counted per step identity whatever the path taken: every
\* trigger (of one step or of several branches) that resolves to a step makes
\* one visit of it, so that k triggers resolving to the same successor raise
\* its visit count by k; the count never passes max_visits, and when more
\* visits arrive than max_visits allows, one is refused with the cycle-limit
\* error and the run does not succeed, even though the graph has no cycle.
C36_CountedPerIdentity ==
    (Running /\ IsFlow(top) /\ frames[1].inner # 0) =>
        \A t \in DOMAIN graph :
            LET arrived == {f \in VisitsIn(1, t) : frames[f].pc # "enter"}
                limit == graph[top].max_visits
            IN  /\ VisitCount(1, t) = Min(Cardinality(arrived), limit)
                /\ Cardinality(arrived) > limit =>
                      /\ \E f \in arrived :
                            Refused(f) /\ frames[f].err = Err("CycleLimit", t, 0)
                      /\ ~Succeeded(frames[1])
                /\ Succeeded(frames[1]) =>
                      VisitCount(1, t) = Cardinality(Resolved(t))
                                         + (IF t = graph[top].start THEN 1 ELSE 0)

\* a start step emitted three triggers of one action that resolves to one
\* terminal step, in a Flow with max_visits = 2: two visits were counted and
\* the run failed with the cycle-limit error, in a graph without a cycle
C36_Witness ==
    /\ RunEnded
    /\ Len(graph[1].trig) = 3 /\ GetNextNodes(1, "go") = <<2>> /\ IsTerminal(2)
    /\ graph[top].max_visits = 2
    /\ VisitCount(1, 2) = 2
    /\ frames[1].err = Err("CycleLimit", 2, 0)

\* ------------------------------------------------------------------ C37
\* the pairs of visit f that carry action a, and the visits run for pair i
PairsFor(f, a) == {i \in 1..Len(frames[f].pairs) : frames[f].pairs[i].action = a}
KidsFor(f, i) == {g \in FrameIds : frames[g].parent = f /\ frames[g].pidx = i}
\* the actions post of visit f triggered more than once that have successors
Repeated(f) ==
    {a \in ActionsOf(frames[f]) :
        Cardinality(PairsFor(f, a)) > 1 /\ RegisteredFor(frames[f].node, a) # <<>>}

\* C37: when post triggers the same action m > 1 times, the successors of the
\* action are run m times, once per trigger and each with the forking data of
\* that trigger in its local store, but the execution record of the step keeps
\* under that action only the records of the successors run for the last of
\* these triggers.
C37_RepeatedAction ==
    \A f \in Visited :
        frames[f].pc = "done" =>
            \A a \in Repeated(f) :
                LET fr == frames[f]
                    succ == RegisteredFor(fr.node, a)
                    last_ == CHOOSE i \in PairsFor(f, a) : \A j \in PairsFor(f, a) : j <= i
                    kept == SortedSeq(KidsFor(f, last_))
                IN  /\ \A i \in PairsFor(f, a) :
                          LET ids == SortedSeq(KidsFor(f, i))
                              fd == fr.triggers[i].forking_data
                          IN  /\ Len(ids) = Len(succ)
                              /\ \A k \in 1..Len(ids) :
                                    /\ frames[ids[k]].node = succ[k]
                                    /\ frames[ids[k]].pc = "done"
                                    /\ frames[ids[k]].npost = 1
                                    /\ \A key \in DOMAIN fd :
                                          /\ key \in DOMAIN frames[ids[k]].local
                                          /\ frames[ids[k]].local[key] = fd[key]
                    /\ Len(fr.tree.triggered[a]) = Len(succ)
                    /\ \A k \in 1..Len(succ) : fr.tree.triggered[a][k] = frames[kept[k]].tree

\* a step triggered one action three times; the successor run for an earlier
\* trigger produced a record that differs from that of the last trigger, and
\* the step's record does not hold it
C37_Witness ==
    \E f \in Visited :
        /\ frames[f].pc = "done"
        /\ \E a \in Repeated(f) :
              /\ Cardinality(PairsFor(f, a)) = 3
              /\ \E i \in PairsFor(f, a), g \in FrameIds :
                    /\ g \in KidsFor(f, i)
                    /\ \A k \in 1..Len(frames[f].tree.triggered[a]) :
                          frames[f].tree.triggered[a][k] # frames[g].tree

\* ------------------------------------------------------------------ C38
\* the sequences a and b hold the same elements the same number of times
SameBag(a, b) ==
    /\ Len(a) = Len(b)
    /\ \A t \in Range(a) \cup Range(b) : Count(a, t) = Count(b, t)

\* C38: for steps whose triggers do not depend on global memory, the terminal
\* triggers a ParallelFlow collects as its own pending triggers - what run
\* yields under propagate, and so what its outer successors are run for - are,
\* as a multiset, the same for every interleaving of its branches and the same
\* as those of a sequential Flow over the same graph; only their order may
\* differ.
C38_SameTerminalTriggers ==
    \A i \in 1..Len(runs) : \A j \in 1..Len(runs) :
        (/\ runs[i].kind = "Flow" /\ runs[j].kind = "ParallelFlow"
         /\ runs[i].ok /\ runs[j].ok
         /\ runs[i].propagate /\ runs[j].propagate) =>
            SameBag(runs[i].result, runs[j].result)

\* a Flow and a ParallelFlow over the same graph have both yielded two
\* terminal triggers, in different orders
C38_Witness ==
    /\ Len(runs) = 2
    /\ runs[1].kind # runs[2].kind /\ IsFlow(top)
    /\ runs[1].ok /\ runs[2].ok
    /\ runs[1].propagate /\ runs[2].propagate
    /\ Len(runs[1].result) = 2
    /\ runs[1].result # runs[2].result
    /\ runs[1].result[1].action = runs[2].result[2].action

\* ------------------------------------------------------------------ C39
\* the runs of a Node built with max_retries <= 0
NoRetryFrames == {f \in NodeFrames : graph[frames[f].node].max_retries <= 0}

\* C39: a Node constructed with max_retries <= 0 never calls exec or
\* exec_fallback: run calls prep, then fails with the RuntimeError the retry
\* loop ends on, and post is not run.
C39_NoRetries ==
    \A f \in NoRetryFrames :
        LET fr == frames[f]
        IN  /\ fr.nexec = 0 /\ fr.nfallback = 0 /\ fr.npost = 0
            /\ fr.log \in {<<>>, <<"prep">>}
            /\ ~Succeeded(fr)
            /\ fr.pc = "exec" => fr.nprep = 1
            /\ Failed(fr) =>
                  /\ fr.nprep = 1
                  /\ fr.err = Err("RuntimeError", fr.node, 0)
            /\ (f = 1 /\ fr.pc = "raised") => runs[Len(runs)].result = Err("RuntimeError", fr.node, 0)

\* run on a Node built with max_retries = 0 has called prep and has raised the
\* RuntimeError to the caller
C39_Witness ==
    /\ Running /\ 1 \in NoRetryFrames
    /\ graph[top].max_retries = 0
    /\ frames[1].pc = "raised" /\ frames[1].log = <<"prep">>
    /\ runs[Len(runs)].result = Err("RuntimeError", top, 0)

====
